---- MODULE Spec2Model ----
(***************************************************************************)
(* Model of the reddit-alert poller (poller.py) and the store it works on  *)
(* (db.py): the execution lock, one poll cycle (run_once) cut at its I/O   *)
(* boundaries, and the environment it runs in (process crashes, the feed   *)
(* of posts, failing sends and fetches).                                   *)
(*                                                                         *)
(* Text is a sequence of one-character strings; timestamps are naturals.   *)
(***************************************************************************)
EXTENDS Naturals, Integers, Sequences, FiniteSets, Bags, TLC

\* ------------------------------------------------------------------ bounds
\* Number of poller processes ever started (cron ticks, manual runs).
MaxRuns == 2

\* ------------------------------------------------------------ text helpers
Range(s) == {s[i] : i \in 1..Len(s)}

\* str.lower() on the alphabet used by the data below.
LowerChar(c) ==
    CASE c = "W" -> "w"
      [] c = "S" -> "s"
      [] c = "R" -> "r"
      [] c = "K" -> "k"
      [] OTHER -> c

Lower(s) == [i \in 1..Len(s) |-> LowerChar(s[i])]

RECURSIVE LStrip(_, _)
\* str.lstrip(chars): drops leading characters while they are in chars.
LStrip(s, chars) ==
    IF s # <<>> /\ Head(s) \in chars THEN LStrip(Tail(s), chars) ELSE s

RECURSIVE RStrip(_, _)
RStrip(s, chars) ==
    IF s # <<>> /\ s[Len(s)] \in chars
    THEN RStrip(SubSeq(s, 1, Len(s) - 1), chars)
    ELSE s

Whitespace == {" "}

\* str.strip()
Strip(s) == RStrip(LStrip(s, Whitespace), Whitespace)

RECURSIVE Replace(_, _, _)
\* str.replace(old, new): every non-overlapping occurrence of old, scanning
\* from the left, becomes new (old is not empty).
Replace(s, old, new) ==
    IF Len(s) < Len(old) THEN s
    ELSE IF SubSeq(s, 1, Len(old)) = old
         THEN new \o Replace(SubSeq(s, Len(old) + 1, Len(s)), old, new)
         ELSE << Head(s) >> \o Replace(Tail(s), old, new)

\* The characters re.escape() puts a backslash in front of, among those of
\* the alphabets used below.
SpecialChars == {"(", ")", ".", " ", "\\"}

\* A keyword handed to re.compile as it is.
Escape_None(kw) == kw

RECURSIVE Escape(_)
\* re.escape(kw)
Escape(kw) ==
    IF kw = << >> THEN << >>
    ELSE (IF Head(kw) \in SpecialChars THEN << "\\", Head(kw) >> ELSE << Head(kw) >>)
         \o Escape(Tail(kw))

RECURSIVE Tokens(_)
\* re.compile(pattern): the pattern as a sequence of items.  A backslash
\* makes the next character a literal, "." is any character, "(" and ")"
\* open and close a group; every other character is a literal.
Tokens(pattern) ==
    IF pattern = << >> THEN << >>
    ELSE IF Head(pattern) = "\\" /\ Len(pattern) >= 2
         THEN << [kind |-> "lit", c |-> pattern[2]] >> \o Tokens(SubSeq(pattern, 3, Len(pattern)))
    ELSE IF Head(pattern) = "."
         THEN << [kind |-> "any", c |-> "."] >> \o Tokens(Tail(pattern))
    ELSE IF Head(pattern) \in {"(", ")"}
         THEN << [kind |-> "group", c |-> Head(pattern)] >> \o Tokens(Tail(pattern))
    ELSE << [kind |-> "lit", c |-> Head(pattern)] >> \o Tokens(Tail(pattern))

RECURSIVE MatchAt(_, _, _)
\* The items match text from position i on.  With re.IGNORECASE a literal
\* matches a character that differs from it by case only; a group delimiter
\* matches without reading a character.
MatchAt(toks, text, i) ==
    IF toks = << >> THEN TRUE
    ELSE IF Head(toks).kind = "group" THEN MatchAt(Tail(toks), text, i)
    ELSE /\ i <= Len(text)
         /\ Head(toks).kind = "lit" => LowerChar(text[i]) = LowerChar(Head(toks).c)
         /\ MatchAt(Tail(toks), text, i + 1)

\* Pattern.search(text) of re.compile(pattern, re.IGNORECASE)
RegexSearch(pattern, text) ==
    \E i \in 1..(Len(text) + 1) : MatchAt(Tokens(pattern), text, i)

\* _key_regex(kw).search(text)
KeySearch(kw, text) == RegexSearch(Escape(kw), text)

\* ------------------------------------------------------------------- data
\* users table rows (db.User).
\* password_hash of a user who has set no password (NULL).
NoHash == "none"

UserRows ==
    << [id |-> "u1", email |-> "u1@x", password_hash |-> NoHash],
       [id |-> "u2", email |-> "u2@x", password_hash |-> NoHash],
       [id |-> "u3", email |-> "u3@x", password_hash |-> NoHash] >>

\* alerts table rows (db.Alert), in table order.  Stored subreddits carry no
\* "r/" (manage.add_alert / AlertService strip it) but keep their case.
AlertRows ==
    << [id |-> "a1", user_id |-> "u1", subreddit |-> <<"w">>,      keyword |-> <<"s">>, is_active |-> TRUE],
       [id |-> "a2", user_id |-> "u2", subreddit |-> <<"W">>,      keyword |-> <<"s">>, is_active |-> TRUE],
       [id |-> "a3", user_id |-> "u1", subreddit |-> <<"m">>,      keyword |-> <<"k">>, is_active |-> TRUE],
       [id |-> "a4", user_id |-> "u3", subreddit |-> <<"w">>,      keyword |-> <<"s">>, is_active |-> TRUE],
       [id |-> "a5", user_id |-> "u2", subreddit |-> <<"m">>,      keyword |-> <<"k">>, is_active |-> FALSE] >>

\* Posts the content source may list (praw submissions): id, subreddit,
\* created_utc, title, selftext.
PostRows ==
    << [id |-> "x", subreddit |-> <<"w">>, created_utc |-> 1, title |-> <<"q">>,      selftext |-> <<>>],
       [id |-> "y", subreddit |-> <<"w">>, created_utc |-> 2, title |-> <<"q">>,      selftext |-> <<"a", "S">>],
       [id |-> "z", subreddit |-> <<"m">>, created_utc |-> 1, title |-> <<"K", "k">>, selftext |-> <<>>] >>

\* An alerts table with a single subscription.
OneAlert == << AlertRows[1] >>

PostIds == {PostRows[i].id : i \in 1..Len(PostRows)}
Post(id) == CHOOSE r \in Range(PostRows) : r.id = id
AlertIds == {AlertRows[i].id : i \in 1..Len(AlertRows)}
Procs == {"p1", "p2"}


\* os.getenv("FETCH_LIMIT", "100")
FETCH_LIMIT == 100

\* --------------------------------------------------------- pure functions
\* run_once's grouping key: (a.subreddit.strip().lower().lstrip("r/"),
\* a.keyword.strip()).
PairKey(a) == << LStrip(Lower(Strip(a.subreddit)), {"r", "/"}), Strip(a.keyword) >>

\* A query without the is_active filter.
ActiveAlerts_All(table) == table

\* session.query(Alert).filter(Alert.is_active == True).all()
ActiveAlerts(table) == SelectSeq(table, LAMBDA a : a.is_active)

RECURSIVE BuildPairs_PerAlert(_, _)
\* A grouping that opens a group for every subscription.
BuildPairs_PerAlert(active, acc) ==
    IF active = <<>> THEN acc
    ELSE BuildPairs_PerAlert(Tail(active),
                             Append(acc, [key |-> PairKey(Head(active)),
                                          alerts |-> <<Head(active)>>]))

RECURSIVE BuildPairs(_, _)
\* pairs[key] = pairs.get(key, []) + [a], keys kept in first-seen order.
BuildPairs(active, acc) ==
    IF active = <<>> THEN acc
    ELSE LET a == Head(active)
             k == PairKey(a)
             hit == {i \in 1..Len(acc) : acc[i].key = k}
         IN  IF hit = {}
             THEN BuildPairs(Tail(active), Append(acc, [key |-> k, alerts |-> <<a>>]))
             ELSE LET i == CHOOSE j \in hit : TRUE
                  IN  BuildPairs(Tail(active),
                                 [acc EXCEPT ![i].alerts = Append(@, a)])

\* float(getattr(post, "created_utc", 0.0))
Created(id) == Post(id).created_utc

RECURSIVE InsertAsc(_, _)
\* Stable insertion by created_utc ascending (list.sort is stable).
InsertAsc(id, s) ==
    IF s = <<>> THEN <<id>>
    ELSE IF Created(s[Len(s)]) <= Created(id) THEN Append(s, id)
    ELSE Append(InsertAsc(id, SubSeq(s, 1, Len(s) - 1)), s[Len(s)])

RECURSIVE SortAsc(_)
\* posts.sort(key=lambda p: float(getattr(p, "created_utc", 0.0)))
SortAsc(s) == IF s = <<>> THEN <<>> ELSE InsertAsc(s[Len(s)], SortAsc(SubSeq(s, 1, Len(s) - 1)))

\* reddit.subreddit(name).new(limit=n): the listed posts of that subreddit,
\* newest first, at most n of them.
Listing(listed, name, n) ==
    LET mine == SelectSeq(PostRows, LAMBDA r : r.id \in listed /\ Lower(r.subreddit) = name)
        ids == [i \in 1..Len(mine) |-> mine[i].id]
        asc == SortAsc(ids)
        desc == [i \in 1..Len(asc) |-> asc[Len(asc) + 1 - i]]
    IN  SubSeq(desc, 1, IF Len(desc) < n THEN Len(desc) ELSE n)

\* A cycle that starts from zero whatever the stored checkpoint is.
ReadSince_Zero(chk) == 0

\* since = chk.last_seen_created_utc if chk else 0.0
ReadSince(chk) == IF chk.present THEN chk.value ELSE 0

\* The checkpoint filter left out.
AlreadySeen_Never(created, since) == FALSE

\* The checkpoint filter with < for <=.
AlreadySeen_Strict(created, since) == created < since

\* if created <= since: continue
AlreadySeen(created, since) == created <= since

\* max_seen never advanced.
NextMaxSeen_Stuck(created, max_seen) == max_seen

\* if created > max_seen: max_seen = created
NextMaxSeen(created, max_seen) == IF created > max_seen THEN created ELSE max_seen

\* key_re.search(title) or key_re.search(body)
Matches(keyword, id) ==
    KeySearch(keyword, Post(id).title) \/ KeySearch(keyword, Post(id).selftext)

\* The dedupe lookup left out.
DeliveryExists_Never(rows, alert_id, post_id) == FALSE

\* session.query(Delivery).filter(alert_id == a.id, reddit_post_id == post.id).first()
DeliveryExists(rows, alert_id, post_id) == CopiesIn(<<alert_id, post_id>>, rows) > 0

\* A deliveries table without the unique constraint.
UniqueViolation_Never(rows, alert_id, post_id) == FALSE

\* UniqueConstraint("alert_id", "reddit_post_id"): the insert is refused when
\* a row with the pair is already there.
UniqueViolation(rows, alert_id, post_id) == CopiesIn(<<alert_id, post_id>>, rows) > 0

\* session.query(User).filter(User.id == a.user_id).first(), then
\* "not user or not user.email".
UserEmail(table, user_id) ==
    LET hit == SelectSeq(table, LAMBDA u : u.id = user_id)
    IN  IF hit = <<>> THEN "" ELSE hit[1].email

\* A lock call that grants without looking at the holder (a shared or missing
\* lock).
LockGranted_Always(holder) == TRUE

\* fcntl.flock(LOCK_EX | LOCK_NB) / pg_try_advisory_lock: granted exactly when
\* no other open descriptor / session holds the lock.
LockGranted(holder) == holder = "none"

\* fcntl.flock(LOCK_UN) + close / pg_advisory_unlock: gives up the lock this
\* descriptor / session holds, and no other.
Unlock(holder, p) == IF holder = p THEN "none" ELSE holder

\* A release() that leaves the backend lock alone.
Release_Skip(lock_acquired, holder, p) == holder

\* A release() that unlocks without looking at lock_acquired or at the holder.
Release_Unguarded(lock_acquired, holder, p) == "none"

\* PollerLock.release(): "if self.lock_acquired: ..."
Release(lock_acquired, holder, p) == IF lock_acquired THEN Unlock(holder, p) ELSE holder

\* ---------------------------------------------------------- retry_on_error
\* Largest max_retries and delay tried.
MaxAttempts == 4
MaxDelay == 3

\* The operations run_once wraps in retry_on_error.
Funcs == {"make_reddit", "fetch_new", "send_email"}

\* "except (RedditAPIException, ResponseException, RequestException,
\* PRAWException)": the classes retry_on_error retries.
RetryableErrors ==
    {"RedditAPIException", "ResponseException", "RequestException", "PRAWException"}

\* What each wrapped operation raises.  The content source raises praw /
\* prawcore errors or anything else; send_email raises RuntimeError when its
\* credentials are missing and smtplib's errors from login / sendmail.
Raises(func) ==
    IF func = "send_email"
    THEN {"RuntimeError", "SMTPException"}
    ELSE {"PRAWException", "RequestException", "Exception"}

\* A wait that does not grow with the attempt.
WaitTime_Flat(delay, attempt) == delay

\* wait_time = delay * (2 ** attempt)
WaitTime(delay, attempt) == delay * (2 ^ attempt)

\* A last attempt that is never recognised before the loop runs out.
MoreAttempts_OneMore(attempt, max_retries) == attempt < max_retries

\* "if attempt < max_retries - 1"
MoreAttempts(attempt, max_retries) == attempt < max_retries - 1

\* A handler that retries whatever was raised.
IsRetryable_Any(err) == TRUE

\* The first except clause catches err.
IsRetryable(err) == err \in RetryableErrors

\* No call of retry_on_error under way.
NoRetry ==
    [ func |-> "none", max_retries |-> 0, delay |-> 0, attempt |-> 0,
      calls |-> 0, sleeps |-> <<>>, status |-> "idle", error |-> "none" ]

\* ------------------------------------------------------------------ state
VARIABLES
    users,        \* users table (seq of rows)
    alerts,       \* alerts table (seq of rows)
    deliveries,   \* deliveries table: bag of <<alert_id, reddit_post_id>>
    checkpoints,  \* checkpoints table: (subreddit, keyword) -> last_seen_created_utc
    lockHolder,   \* the flock / advisory lock: "none" or the process holding it
    feed,         \* ids of the posts the content source lists now
    proc,         \* per process: position in main()/run_once() and its locals
    sent,         \* mailbox: bag of <<alert_id, reddit_post_id>>, one per sent email
    started,      \* processes started so far
    unrecorded,   \* bag of pairs: sends whose Delivery commit did not follow
                  \* (the process crashed, or the commit failed, in between)
    beforeSend,   \* a crash has hit a process after a match and before its send
    retry,        \* one call of retry_on_error: its arguments, loop variable,
                  \* the calls made of func and the sleeps taken
    tokens,       \* password_reset_tokens table (set of rows)
    resp,         \* the last HTTP request handled by the API and its response
    fn,           \* one application of the text functions: inputs and results
    now,          \* datetime.utcnow(), in token lifetimes
    uuids         \* uuid4 and reset-token values drawn so far

vars == << users, alerts, deliveries, checkpoints, lockHolder, feed, proc,
           sent, started, unrecorded, beforeSend, retry, tokens, resp, fn,
           now, uuids >>

\* What the poller and retry_on_error never touch.
rest == << tokens, resp, fn, now, uuids >>

NoResp == [op |-> "none", status |-> 0]
NoFn == [op |-> "none"]

store == << users, alerts, deliveries, checkpoints >>
history == << sent, unrecorded, beforeSend >>

NoChk == [present |-> FALSE, value |-> 0]
NoResult == [returned |-> FALSE, scanned_pairs |-> 0, emails |-> 0, error |-> FALSE]

\* Exit status of a process: none yet, sys.exit(0) or main() returning, and
\* an exception that main() does not catch.
NoExit == -1
ExitOk == 0
ExitError == 1

\* Calls of release() tried on one PollerLock.
MaxReleases == 2

\* A process that is not running: PollerLock.__init__ and run_once's first
\* assignments.
Fresh ==
    [ pc |-> "idle", skip_lock |-> FALSE, lock_acquired |-> FALSE,
      pairs |-> <<>>, gi |-> 0, chk |-> NoChk, since |-> 0, max_seen |-> 0,
      posts |-> <<>>, pi |-> 0, ai |-> 0, total_emails |-> 0,
      result |-> NoResult,
      loop |-> FALSE,        \* args.loop
      failed |-> {},         \* groups of this cycle whose fetch raised
      fetches |-> 0,         \* fetches run_once has asked for in this cycle
      releases |-> 0,        \* calls of release() on this process's PollerLock
      logged_errors |-> 0,   \* exceptions _run_loop has caught and logged
      printed |-> FALSE,     \* main() has printed run_once's summary
      exit_code |-> NoExit ]

\* The process has left main() with status code; without --skip-lock
\* poller_lock's finally has called release() on the way out.
Exited(l, code) ==
    [Fresh EXCEPT !.exit_code = code,
                  !.releases = IF l.skip_lock THEN l.releases ELSE l.releases + 1]

Init ==
    /\ users = UserRows
    /\ alerts \in {AlertRows, OneAlert}
    /\ deliveries = EmptyBag
    /\ checkpoints = << >>
    /\ lockHolder = "none"
    /\ feed \in SUBSET PostIds
    /\ proc = [p \in Procs |-> Fresh]
    /\ sent = EmptyBag
    /\ started = 0
    /\ unrecorded = EmptyBag
    /\ beforeSend = FALSE
    /\ retry = NoRetry
    /\ tokens = {}
    /\ resp = NoResp
    /\ now = 0
    /\ uuids = 0
    /\ fn = NoFn

\* ------------------------------------------------------- loop bookkeeping
Group(l) == l.pairs[l.gi]
CurAlert(l) == Group(l).alerts[l.ai]
CurPost(l) == l.posts[l.pi]
CurPair(l) == << CurAlert(l).id, CurPost(l) >>

RECURSIVE Scan_MatchedOnly(_)
\* A scan that advances max_seen on matching posts only.
Scan_MatchedOnly(l) ==
    IF l.pi > Len(l.posts) THEN [l EXCEPT !.pc = "checkpoint", !.ai = 0]
    ELSE IF AlreadySeen(Created(CurPost(l)), l.since) THEN Scan_MatchedOnly([l EXCEPT !.pi = @ + 1])
    ELSE IF Matches(Group(l).key[2], CurPost(l))
         THEN [l EXCEPT !.max_seen = NextMaxSeen(Created(CurPost(l)), @),
                        !.ai = 1, !.pc = "dedupe"]
         ELSE Scan_MatchedOnly([l EXCEPT !.pi = @ + 1])

RECURSIVE Scan(_)
\* "for post in posts", from post pi on: the checkpoint filter, max_seen and
\* the keyword match, up to the first matching post (on to step 4 with its
\* first alert) or past the last post (on to step 5).
Scan(l) ==
    IF l.pi > Len(l.posts) THEN [l EXCEPT !.pc = "checkpoint", !.ai = 0]
    ELSE IF AlreadySeen(Created(CurPost(l)), l.since) THEN Scan([l EXCEPT !.pi = @ + 1])
    ELSE LET m == [l EXCEPT !.max_seen = NextMaxSeen(Created(CurPost(l)), @)]
         IN  IF Matches(Group(l).key[2], CurPost(l))
             THEN [m EXCEPT !.ai = 1, !.pc = "dedupe"]
             ELSE Scan([m EXCEPT !.pi = @ + 1])

\* "continue" of "for a in alerts", falling through to the next post.
NextAlert(l) ==
    IF l.ai < Len(Group(l).alerts)
    THEN [l EXCEPT !.ai = @ + 1, !.pc = "dedupe"]
    ELSE Scan([l EXCEPT !.ai = 0, !.pi = @ + 1])

\* "continue" of "for (subreddit, keyword), alerts in pairs.items()", falling
\* through to run_once's return statement.
NextGroup(l) ==
    IF l.gi < Len(l.pairs)
    THEN [l EXCEPT !.gi = @ + 1, !.pc = "group", !.chk = NoChk, !.since = 0,
                   !.max_seen = 0, !.posts = <<>>, !.pi = 0, !.ai = 0]
    ELSE [l EXCEPT !.pc = "return", !.gi = 0, !.chk = NoChk, !.since = 0,
                   !.max_seen = 0, !.posts = <<>>, !.pi = 0, !.ai = 0,
                   !.result = [returned |-> TRUE, scanned_pairs |-> Len(l.pairs),
                               emails |-> l.total_emails, error |-> FALSE]]

\* ------------------------------------------------------------------ main()
\* A poller process is started without --skip-lock and reaches
\* "with poller_lock(session)".
Start(p) ==
    /\ proc[p].pc = "idle"
    /\ started < MaxRuns
    /\ started' = started + 1
    /\ proc' = [proc EXCEPT ![p] = [Fresh EXCEPT !.pc = "acquire"]]
    /\ UNCHANGED << rest, retry, store, lockHolder, feed, history >>

\* A poller process is started with --skip-lock: run_once() without the lock.
StartSkipLock(p) ==
    /\ proc[p].pc = "idle"
    /\ started < MaxRuns
    /\ started' = started + 1
    /\ proc' = [proc EXCEPT ![p] = [Fresh EXCEPT !.pc = "load", !.skip_lock = TRUE]]
    /\ UNCHANGED << rest, retry, store, lockHolder, feed, history >>

\* PollerLock.acquire(): one non-blocking call on the lock backend.
Acquire(p) ==
    /\ proc[p].pc = "acquire"
    /\ IF LockGranted(lockHolder)
       THEN /\ lockHolder' = p
            /\ proc' = [proc EXCEPT ![p].lock_acquired = TRUE, ![p].pc = "load"]
       ELSE /\ lockHolder' = lockHolder
            /\ proc' = [proc EXCEPT ![p].pc = "denied"]
    /\ UNCHANGED << rest, retry, store, feed, started, history >>

\* A denied process that goes on into run_once() all the same.
ExitDenied_Proceeds(p) ==
    /\ proc[p].pc = "denied"
    /\ proc' = [proc EXCEPT ![p].pc = "load"]
    /\ UNCHANGED << rest, retry, store, lockHolder, feed, started, history >>

\* A denied process that prints a summary of its own before it exits.
ExitDenied_Reports(p) ==
    /\ proc[p].pc = "denied"
    /\ lockHolder' = Release(proc[p].lock_acquired, lockHolder, p)
    /\ proc' = [proc EXCEPT ![p] = [Exited(proc[p], ExitOk) EXCEPT !.printed = TRUE]]
    /\ UNCHANGED << rest, retry, store, feed, started, history >>

\* "if not acquired: sys.exit(0)"; poller_lock's finally calls release(),
\* which does nothing when lock_acquired is false.
ExitDenied(p) ==
    /\ proc[p].pc = "denied"
    /\ lockHolder' = Release(proc[p].lock_acquired, lockHolder, p)
    /\ proc' = [proc EXCEPT ![p] = Exited(@, ExitOk)]
    /\ UNCHANGED << rest, retry, store, feed, started, history >>

\* run_once() has returned: print(result), then poller_lock's finally
\* releases the lock (PollerLock.release) and the process ends.
Return(p) ==
    /\ proc[p].pc = "return"
    /\ ~proc[p].loop
    /\ lockHolder' = Release(proc[p].lock_acquired, lockHolder, p)
    /\ proc' = [proc EXCEPT ![p] = [Exited(proc[p], ExitOk) EXCEPT !.printed = TRUE]]
    /\ UNCHANGED << rest, retry, store, feed, started, history >>

\* A poller process is started with --loop (and without --skip-lock): the
\* lock is taken as in Start, then _run_loop() runs inside the with block.
StartLoop(p) ==
    /\ proc[p].pc = "idle"
    /\ started < MaxRuns
    /\ started' = started + 1
    /\ proc' = [proc EXCEPT ![p] = [Fresh EXCEPT !.pc = "acquire", !.loop = TRUE]]
    /\ UNCHANGED << rest, retry, store, lockHolder, feed, history >>

\* A loop that gives the lock up before it sleeps.
LoopSleep_Unlocked(p) ==
    /\ proc[p].pc = "return"
    /\ proc[p].loop
    /\ lockHolder' = Unlock(lockHolder, p)
    /\ proc' = [proc EXCEPT ![p] = [Fresh EXCEPT !.pc = "sleep", !.loop = TRUE]]
    /\ UNCHANGED << rest, retry, store, feed, started, history >>

\* _run_loop(): run_once() has returned, the result is logged and the loop
\* goes to time.sleep(interval).
LoopSleep(p) ==
    /\ proc[p].pc = "return"
    /\ proc[p].loop
    /\ proc' = [proc EXCEPT ![p] =
                 [Fresh EXCEPT !.pc = "sleep", !.loop = TRUE,
                               !.skip_lock = proc[p].skip_lock,
                               !.lock_acquired = proc[p].lock_acquired,
                               !.logged_errors = proc[p].logged_errors]]
    /\ UNCHANGED << rest, retry, store, lockHolder, feed, started, history >>

\* _run_loop(): the sleep is over, "while True" calls run_once() again.
LoopWake(p) ==
    /\ proc[p].pc = "sleep"
    /\ started < MaxRuns
    /\ started' = started + 1
    /\ proc' = [proc EXCEPT ![p].pc = "load"]
    /\ UNCHANGED << rest, retry, store, lockHolder, feed, history >>

\* An exception out of run_once() that ends the loop and the process.
LoadFail_Escapes(p) ==
    /\ proc[p].pc = "load"
    /\ lockHolder' = Release(proc[p].lock_acquired, lockHolder, p)
    /\ proc' = [proc EXCEPT ![p] = Exited(@, ExitError)]
    /\ UNCHANGED << rest, retry, store, feed, started, history >>

\* run_once() raises an Exception: init_db() / Session() fail before its try
\* block.  _run_loop catches and logs it and goes to sleep; without --loop
\* it passes through the with block (release()) and ends the process.
LoadFail(p) ==
    /\ proc[p].pc = "load"
    /\ IF proc[p].loop
       THEN /\ lockHolder' = lockHolder
            /\ proc' = [proc EXCEPT ![p] =
                         [Fresh EXCEPT !.pc = "sleep", !.loop = TRUE,
                                       !.skip_lock = proc[p].skip_lock,
                                       !.lock_acquired = proc[p].lock_acquired,
                                       !.logged_errors = proc[p].logged_errors + 1]]
       ELSE /\ lockHolder' = Release(proc[p].lock_acquired, lockHolder, p)
            /\ proc' = [proc EXCEPT ![p] = Exited(@, ExitError)]
    /\ UNCHANGED << rest, retry, store, feed, started, history >>

\* An exception that neither run_once() nor _run_loop() catches
\* (KeyboardInterrupt, SystemExit: not an Exception) is raised inside the
\* with block: run_once's finally closes its session, poller_lock's finally
\* calls release(), main()'s finally closes its session, the process ends.
Interrupt(p) ==
    /\ proc[p].pc \in {"load", "client", "group", "fetch", "dedupe", "send",
                       "record", "checkpoint", "return", "sleep"}
    /\ lockHolder' = Release(proc[p].lock_acquired, lockHolder, p)
    /\ unrecorded' = IF proc[p].pc = "record"
                       THEN unrecorded (+) SetToBag({CurPair(proc[p])})
                       ELSE unrecorded
    /\ beforeSend' = (beforeSend \/ proc[p].pc \in {"dedupe", "send"})
    /\ proc' = [proc EXCEPT ![p] = Exited(@, ExitError)]
    /\ UNCHANGED << rest, retry, store, feed, started, sent >>

\* release() is called once more on the PollerLock of a process that is not
\* inside the with block: before any acquire(), after an acquire() that
\* returned False, or after the release() that followed a successful one.
ReleaseAgain(p) ==
    /\ proc[p].pc = "idle"
    /\ proc[p].releases < MaxReleases
    /\ lockHolder' = Release(proc[p].lock_acquired, lockHolder, p)
    /\ proc' = [proc EXCEPT ![p].lock_acquired = FALSE, ![p].releases = @ + 1]
    /\ UNCHANGED << rest, retry, store, feed, started, history >>

\* --------------------------------------------------------------- run_once()
\* Step 1: load the active alerts and group them; no pairs returns at once.
LoadAlerts(p) ==
    /\ proc[p].pc = "load"
    /\ LET pairs == BuildPairs(ActiveAlerts(alerts), <<>>)
       IN  proc' = [proc EXCEPT ![p] =
                IF pairs = <<>>
                THEN [@ EXCEPT !.pc = "return",
                               !.result = [returned |-> TRUE, scanned_pairs |-> 0,
                                           emails |-> 0, error |-> FALSE]]
                ELSE [@ EXCEPT !.pc = "client", !.pairs = pairs]]
    /\ UNCHANGED << rest, retry, store, lockHolder, feed, started, history >>

\* reddit = retry_on_error(make_reddit) succeeds; the group loop starts.
ClientOk(p) ==
    /\ proc[p].pc = "client"
    /\ proc' = [proc EXCEPT ![p] = NextGroup(@)]
    /\ UNCHANGED << rest, retry, store, lockHolder, feed, started, history >>

\* An error summary that counts the pairs found.
ClientFail_CountsPairs(p) ==
    /\ proc[p].pc = "client"
    /\ proc' = [proc EXCEPT ![p].pc = "return",
                            ![p].result = [returned |-> TRUE,
                                           scanned_pairs |-> Len(proc[p].pairs),
                                           emails |-> 0, error |-> TRUE]]
    /\ UNCHANGED << rest, retry, store, lockHolder, feed, started, history >>

\* make_reddit raises: run_once returns the error summary.
ClientFail(p) ==
    /\ proc[p].pc = "client"
    /\ proc' = [proc EXCEPT ![p].pc = "return", ![p].pairs = <<>>,
                            ![p].result = [returned |-> TRUE, scanned_pairs |-> 0,
                                           emails |-> 0, error |-> TRUE]]
    /\ UNCHANGED << rest, retry, store, lockHolder, feed, started, history >>

\* Step 2: chk = session.get(Checkpoint, key); since; max_seen = since.
ReadCheckpoint(p) ==
    /\ proc[p].pc = "group"
    /\ LET key == Group(proc[p]).key
           chk == IF key \in DOMAIN checkpoints
                  THEN [present |-> TRUE, value |-> checkpoints[key]]
                  ELSE NoChk
       IN  proc' = [proc EXCEPT ![p].chk = chk, ![p].since = ReadSince(chk),
                                ![p].max_seen = ReadSince(chk), ![p].pc = "fetch"]
    /\ UNCHANGED << rest, retry, store, lockHolder, feed, started, history >>

\* Step 3 with the fetch returning the posts listed: they are sorted oldest
\* first and scanned up to the first match.  posts = list(fetch_new(...)) and
\* posts.sort(...) are evaluated once each: the listing and the sorted list are
\* bound as values before the scan reads them.
Fetched(l, listed) ==
    CHOOSE r \in { Scan([l EXCEPT !.posts = sorted, !.pi = 1, !.fetches = @ + 1]) :
                       sorted \in { SortAsc(posts) :
                           posts \in {Listing(listed, Group(l).key[1], FETCH_LIMIT)} } } : TRUE

\* Step 3: the fetch succeeds on the listing as it was.
FetchOk(p) ==
    /\ proc[p].pc = "fetch"
    /\ proc' = [proc EXCEPT ![p] = Fetched(@, feed)]
    /\ UNCHANGED << rest, retry, store, lockHolder, feed, started, history >>

\* Step 3: the fetch succeeds on a listing that has changed since it was last
\* read: posts have appeared, others are gone (deleted, or pushed out of the
\* newest FETCH_LIMIT).
FetchChanged(p) ==
    /\ proc[p].pc = "fetch"
    /\ \E listed \in (SUBSET PostIds) \ {feed} :
        /\ feed' = listed
        /\ proc' = [proc EXCEPT ![p] = Fetched(@, listed)]
    /\ UNCHANGED << rest, retry, store, lockHolder, started, history >>

\* A fetch failure that ends the whole cycle with the error summary.
FetchFail_Abort(p) ==
    /\ proc[p].pc = "fetch"
    /\ proc' = [proc EXCEPT ![p].pc = "return",
                            ![p].failed = @ \cup {proc[p].gi},
                            ![p].fetches = @ + 1,
                            ![p].result = [returned |-> TRUE, scanned_pairs |-> 0,
                                           emails |-> proc[p].total_emails,
                                           error |-> TRUE]]
    /\ UNCHANGED << rest, retry, store, lockHolder, feed, started, history >>

\* Step 3: the fetch raises after retries: "continue" to the next pair.
FetchFail(p) ==
    /\ proc[p].pc = "fetch"
    /\ proc' = [proc EXCEPT ![p] = NextGroup([@ EXCEPT !.failed = @ \cup {proc[p].gi},
                                                        !.fetches = @ + 1])]
    /\ UNCHANGED << rest, retry, store, lockHolder, feed, started, history >>

\* Step 4, "dedupe" and "user email": the Delivery lookup, then the owner's
\* address.
CheckDelivery(p) ==
    /\ proc[p].pc = "dedupe"
    /\ LET l == proc[p]
       IN  proc' = [proc EXCEPT ![p] =
                IF DeliveryExists(deliveries, CurAlert(l).id, CurPost(l)) THEN NextAlert(l)
                ELSE IF UserEmail(users, CurAlert(l).user_id) = "" THEN NextAlert(l)
                ELSE [l EXCEPT !.pc = "send"]]
    /\ UNCHANGED << rest, retry, store, lockHolder, feed, started, history >>

\* A send that goes on to the next subscription without recording.
SendOk_NoRecord(p) ==
    /\ proc[p].pc = "send"
    /\ sent' = sent (+) SetToBag({CurPair(proc[p])})
    /\ proc' = [proc EXCEPT ![p] = NextAlert([@ EXCEPT !.total_emails = @ + 1])]
    /\ UNCHANGED << rest, retry, store, lockHolder, feed, started, unrecorded, beforeSend >>

\* retry_on_error(send_email, ...) returns: the email is out.
SendOk(p) ==
    /\ proc[p].pc = "send"
    /\ sent' = sent (+) SetToBag({CurPair(proc[p])})
    /\ proc' = [proc EXCEPT ![p].total_emails = @ + 1, ![p].pc = "record"]
    /\ UNCHANGED << rest, retry, store, lockHolder, feed, started, unrecorded, beforeSend >>

\* A failed send that gives up the rest of the group.
SendFail_AbortGroup(p) ==
    /\ proc[p].pc = "send"
    /\ proc' = [proc EXCEPT ![p] = NextGroup(@)]
    /\ UNCHANGED << rest, retry, store, lockHolder, feed, started, history >>

\* A failed send that is counted as an email.
SendFail_Counted(p) ==
    /\ proc[p].pc = "send"
    /\ proc' = [proc EXCEPT ![p] = NextAlert([@ EXCEPT !.total_emails = @ + 1])]
    /\ UNCHANGED << rest, retry, store, lockHolder, feed, started, history >>

\* retry_on_error(send_email, ...) raises: logged, "continue".
SendFail(p) ==
    /\ proc[p].pc = "send"
    /\ proc' = [proc EXCEPT ![p] = NextAlert(@)]
    /\ UNCHANGED << rest, retry, store, lockHolder, feed, started, history >>

\* A Delivery added to the session and never committed.
RecordDelivery_NoCommit(p) ==
    /\ proc[p].pc = "record"
    /\ proc' = [proc EXCEPT ![p] = NextAlert(@)]
    /\ UNCHANGED << rest, retry, store, lockHolder, feed, started, history >>

\* A record step that keeps only the newest Delivery row.
RecordDelivery_Prunes(p) ==
    /\ proc[p].pc = "record"
    /\ deliveries' = SetToBag({CurPair(proc[p])})
    /\ proc' = [proc EXCEPT ![p] = NextAlert(proc[p])]
    /\ UNCHANGED << rest, retry, users, alerts, checkpoints, lockHolder, feed, started, history >>

\* session.add(Delivery(...)); session.commit(); an IntegrityError is rolled
\* back and the loop continues.
RecordDelivery(p) ==
    /\ proc[p].pc = "record"
    /\ LET l == proc[p]
       IN  /\ deliveries' = IF UniqueViolation(deliveries, CurAlert(l).id, CurPost(l))
                            THEN deliveries
                            ELSE deliveries (+) SetToBag({CurPair(l)})
           /\ proc' = [proc EXCEPT ![p] = NextAlert(l)]
    /\ UNCHANGED << rest, retry, users, alerts, checkpoints, lockHolder, feed, started, history >>

\* The row the checkpoint commit leaves: an INSERT when no row was read (a
\* primary-key conflict is rolled back), an UPDATE when the loaded value
\* changed, nothing otherwise.
CheckpointAfter(table, key, chk, max_seen) ==
    IF ~chk.present
    THEN IF key \in DOMAIN table THEN table ELSE (key :> max_seen) @@ table
    ELSE IF max_seen # chk.value /\ key \in DOMAIN table
         THEN [table EXCEPT ![key] = max_seen]
         ELSE table

\* Step 5: advance the checkpoint of the pair and commit.
WriteCheckpoint(p) ==
    /\ proc[p].pc = "checkpoint"
    /\ LET l == proc[p]
       IN  /\ checkpoints' = CheckpointAfter(checkpoints, Group(l).key, l.chk, l.max_seen)
           /\ proc' = [proc EXCEPT ![p] = NextGroup(l)]
    /\ UNCHANGED << rest, retry, users, alerts, deliveries, lockHolder, feed, started, history >>

\* The Delivery commit raises an SQLAlchemyError other than the unique
\* conflict (the store is unreachable): rollback, "continue".
RecordFail(p) ==
    /\ proc[p].pc = "record"
    /\ unrecorded' = unrecorded (+) SetToBag({CurPair(proc[p])})
    /\ proc' = [proc EXCEPT ![p] = NextAlert(@)]
    /\ UNCHANGED << rest, retry, store, lockHolder, feed, started, sent, beforeSend >>

\* A failed checkpoint commit that ends the cycle with the error summary.
CheckpointFail_Abort(p) ==
    /\ proc[p].pc = "checkpoint"
    /\ proc' = [proc EXCEPT ![p].pc = "return",
                            ![p].result = [returned |-> TRUE, scanned_pairs |-> 0,
                                           emails |-> proc[p].total_emails,
                                           error |-> TRUE]]
    /\ UNCHANGED << rest, retry, store, lockHolder, feed, started, history >>

\* The checkpoint commit raises an SQLAlchemyError: rollback, and on to the
\* next pair.
CheckpointFail(p) ==
    /\ proc[p].pc = "checkpoint"
    /\ proc' = [proc EXCEPT ![p] = NextGroup(@)]
    /\ UNCHANGED << rest, retry, store, lockHolder, feed, started, history >>

\* ------------------------------------------------------------ environment
\* The process dies (kill, power loss, an uncaught error): the OS closes the
\* lock file / the database drops the session, which releases the lock; work
\* that was not committed is gone.
Crash(p) ==
    /\ proc[p].pc # "idle"
    /\ lockHolder' = Unlock(lockHolder, p)
    /\ unrecorded' = IF proc[p].pc = "record"
                       THEN unrecorded (+) SetToBag({CurPair(proc[p])})
                       ELSE unrecorded
    /\ beforeSend' = (beforeSend \/ proc[p].pc \in {"dedupe", "send"})
    /\ proc' = [proc EXCEPT ![p] = Fresh]
    /\ UNCHANGED << rest, retry, store, feed, started, sent >>

\* ---------------------------------------------------------- retry_on_error
\* "for attempt in range(max_retries): try: return func(*args, **kwargs)":
\* the call returns.
RetryCallReturns ==
    /\ retry.status = "running"
    /\ retry.attempt < retry.max_retries
    /\ retry' = [retry EXCEPT !.calls = @ + 1, !.status = "returned"]
    /\ UNCHANGED << rest, store, lockHolder, feed, proc, started, history >>

\* The call raises err: the first except clause sleeps and goes round the
\* loop, or re-raises on the last attempt; the second re-raises at once.
RetryCallRaises ==
    /\ retry.status = "running"
    /\ retry.attempt < retry.max_retries
    /\ \E err \in Raises(retry.func) :
          retry' =
            IF IsRetryable(err) /\ MoreAttempts(retry.attempt, retry.max_retries)
            THEN [retry EXCEPT !.calls = @ + 1,
                               !.sleeps = Append(@, WaitTime(retry.delay, retry.attempt)),
                               !.attempt = @ + 1,
                               !.error = err]
            ELSE [retry EXCEPT !.calls = @ + 1, !.status = "raised", !.error = err]
    /\ UNCHANGED << rest, store, lockHolder, feed, proc, started, history >>

\* range(max_retries) is used up without a return or a raise: the function
\* falls off its end and returns None.
RetryFallsThrough ==
    /\ retry.status = "running"
    /\ retry.attempt >= retry.max_retries
    /\ retry' = [retry EXCEPT !.status = "none_returned"]
    /\ UNCHANGED << rest, store, lockHolder, feed, proc, started, history >>

\* ---------------------------------------------------------- specifications
\* main() of a process started without --skip-lock.
Main(p) == Start(p) \/ Acquire(p) \/ ExitDenied(p) \/ Return(p)

\* run_once() with every fetch, send and client construction succeeding.
Cycle(p) ==
    \/ LoadAlerts(p)
    \/ ClientOk(p)
    \/ ReadCheckpoint(p)
    \/ FetchOk(p)
    \/ CheckDelivery(p)
    \/ SendOk(p)
    \/ RecordDelivery(p)
    \/ WriteCheckpoint(p)

\* The failures of the content source and of the mail channel that run_once
\* handles itself.
Failure(p) == ClientFail(p) \/ FetchFail(p) \/ SendFail(p)

\* Pollers that take the lock, with every failure (services, store commits),
\* crashes at any step and a changing feed.
Next ==
    \E p \in Procs :
        \/ Main(p) \/ Cycle(p) \/ Failure(p)
        \/ RecordFail(p) \/ CheckpointFail(p)
        \/ Crash(p) \/ FetchChanged(p)

Spec == Init /\ [][Next]_vars

\* Pollers that take the lock and run to completion over a fixed feed;
\* fetches, sends, client construction and the checkpoint commit may fail,
\* the Delivery commit of a sent email does not.
NextStable == \E p \in Procs : Main(p) \/ Cycle(p) \/ Failure(p) \/ CheckpointFail(p)

SpecStable == Init /\ [][NextStable]_vars

\* Pollers that take the lock and run to completion over a fixed feed, with
\* nothing failing.
NextHappy == \E p \in Procs : Main(p) \/ Cycle(p)

SpecHappy == Init /\ [][NextHappy]_vars

\* Pollers that take the lock over a fixed feed and whose only failure is a
\* crash, at any step.
NextCrash == \E p \in Procs : Main(p) \/ Cycle(p) \/ Crash(p)

SpecCrash == Init /\ [][NextCrash]_vars

\* Pollers started with or without --skip-lock, running to completion.
NextSkip == \E p \in Procs : Main(p) \/ StartSkipLock(p) \/ Cycle(p)

SpecSkip == Init /\ [][NextSkip]_vars

\* Pollers started with or without --loop that take the lock, with the
\* failures run_once handles and exceptions nothing catches.
NextLoop ==
    \E p \in Procs :
        \/ Main(p) \/ StartLoop(p) \/ LoopSleep(p) \/ LoopWake(p)
        \/ Cycle(p) \/ Failure(p) \/ LoadFail(p) \/ Interrupt(p)

SpecLoop == Init /\ [][NextLoop]_vars

\* A step of a started process up to its exit or its next sleep.
Running(p) ==
    \/ Acquire(p) \/ ExitDenied(p) \/ Return(p) \/ LoopSleep(p)
    \/ Cycle(p) \/ Failure(p) \/ LoadFail(p)

\* Pollers started with or without --loop that take the lock, with every
\* failure that raises an Exception and none that kills the process, over
\* one subscription.  A started process keeps taking steps, and
\* time.sleep(interval) returns.
NextLoopLive ==
    \E p \in Procs : Start(p) \/ StartLoop(p) \/ Running(p) \/ LoopWake(p)

InitLoopLive == Init /\ alerts = OneAlert /\ feed \in SUBSET {"x", "y"}

SpecLoopLive ==
    /\ InitLoopLive
    /\ [][NextLoopLive]_vars
    /\ \A p \in Procs : WF_vars(Running(p)) /\ WF_vars(LoopWake(p))

\* An alerts table whose only subscription is inactive.
InactiveOnly == << AlertRows[5] >>

\* As Init, over alerts tables with several, one and no active subscription.
InitSummary ==
    /\ users = UserRows
    /\ alerts \in {AlertRows, OneAlert, InactiveOnly}
    /\ deliveries = EmptyBag
    /\ checkpoints = << >>
    /\ lockHolder = "none"
    /\ feed \in SUBSET PostIds
    /\ proc = [p \in Procs |-> Fresh]
    /\ sent = EmptyBag
    /\ started = 0
    /\ unrecorded = EmptyBag
    /\ beforeSend = FALSE
    /\ retry = NoRetry
    /\ tokens = {}
    /\ resp = NoResp
    /\ now = 0
    /\ uuids = 0
    /\ fn = NoFn

\* Pollers that take the lock and run to completion over a fixed feed, with
\* the failures of SpecStable.
SpecSummary == InitSummary /\ [][NextStable]_vars

\* Pollers that take the lock and run to completion, with release() called
\* again on the PollerLock of processes outside the with block.
NextLock == \E p \in Procs : Main(p) \/ Cycle(p) \/ ReleaseAgain(p)

SpecLock == Init /\ [][NextLock]_vars

\* One call retry_on_error(func, max_retries=n, delay=d), for every wrapped
\* operation and every outcome of each attempt.
InitRetry ==
    /\ users = UserRows
    /\ alerts = AlertRows
    /\ deliveries = EmptyBag
    /\ checkpoints = << >>
    /\ lockHolder = "none"
    /\ feed = {}
    /\ proc = [p \in Procs |-> Fresh]
    /\ sent = EmptyBag
    /\ started = 0
    /\ unrecorded = EmptyBag
    /\ beforeSend = FALSE
    /\ tokens = {}
    /\ resp = NoResp
    /\ now = 0
    /\ uuids = 0
    /\ fn = NoFn
    /\ \E f \in Funcs, n \in 0..MaxAttempts, d \in 0..MaxDelay :
          retry = [NoRetry EXCEPT !.func = f, !.max_retries = n, !.delay = d,
                                  !.status = "running"]

NextRetry == RetryCallReturns \/ RetryCallRaises \/ RetryFallsThrough

SpecRetry == InitRetry /\ [][NextRetry]_vars

\* ------------------------------------------------- subscriptions as stored
\* Longest subreddit name typed into the API or the CLI.
MaxName == 4

\* Text of at most n characters over chars.
Strings(chars, n) == UNION {[1..k -> chars] : k \in 0..n}

NameChars == {"r", "R", "/", "w", " "}
SubredditInputs == Strings(NameChars, MaxName)
KeywordInputs == { << >>, <<"s">>, <<" ", "s", " ">>, <<"s", " ", "k">> }

\* subreddit.replace("r/", "").strip()
StoredSubreddit(v) == Strip(Replace(v, <<"r", "/">>, << >>))

\* keyword.strip()
StoredKeyword(v) == Strip(v)

NoRow == [subreddit |-> << >>, keyword |-> << >>]
NoKey == << << >>, << >> >>

\* POST /alerts: AlertCreateRequest (min_length=1, then the validators) and
\* AlertService.create_alert, which normalises once more, give the columns
\* of the new alerts row.
ApiStoresAlert ==
    /\ fn.op = "key"
    /\ fn.pc = "input"
    /\ Len(fn.subreddit) >= 1
    /\ Len(fn.keyword) >= 1
    /\ fn' = [fn EXCEPT !.pc = "stored",
                        !.row = [subreddit |-> StoredSubreddit(StoredSubreddit(fn.subreddit)),
                                 keyword |-> StoredKeyword(StoredKeyword(fn.keyword))]]
    /\ UNCHANGED << store, lockHolder, feed, proc, started, history, retry, tokens, resp, now, uuids >>

\* manage.py add-alert <email> <subreddit> "<keyword>"
CliStoresAlert ==
    /\ fn.op = "key"
    /\ fn.pc = "input"
    /\ fn' = [fn EXCEPT !.pc = "stored",
                        !.row = [subreddit |-> StoredSubreddit(fn.subreddit),
                                 keyword |-> StoredKeyword(fn.keyword)]]
    /\ UNCHANGED << store, lockHolder, feed, proc, started, history, retry, tokens, resp, now, uuids >>

\* run_once, step 1: the fetch-group key of the stored row.
GroupKey ==
    /\ fn.op = "key"
    /\ fn.pc = "stored"
    /\ fn' = [fn EXCEPT !.pc = "keyed", !.key = PairKey(fn.row)]
    /\ UNCHANGED << store, lockHolder, feed, proc, started, history, retry, tokens, resp, now, uuids >>

\* One subscription typed in by a user, stored through the API or the CLI,
\* then grouped by a poll cycle.
InitKey ==
    /\ users = UserRows
    /\ alerts = AlertRows
    /\ deliveries = EmptyBag
    /\ checkpoints = << >>
    /\ lockHolder = "none"
    /\ feed = {}
    /\ proc = [p \in Procs |-> Fresh]
    /\ sent = EmptyBag
    /\ started = 0
    /\ unrecorded = EmptyBag
    /\ beforeSend = FALSE
    /\ retry = NoRetry
    /\ tokens = {}
    /\ resp = NoResp
    /\ now = 0
    /\ uuids = 0
    /\ \E v \in SubredditInputs, k \in KeywordInputs :
          fn = [op |-> "key", pc |-> "input", subreddit |-> v, keyword |-> k,
                row |-> NoRow, key |-> NoKey]

NextKey == ApiStoresAlert \/ CliStoresAlert \/ GroupKey

SpecKey == InitKey /\ [][NextKey]_vars

\* ------------------------------------------------------ keyword matching
\* Longest keyword and longest post title.
MaxKeyword == 3
MaxTitle == 3

KeywordChars == {"s", "S", "(", ")", ".", " "}
TitleChars == {"s", "S", "(", ")", "q", " "}

\* Keywords as the group key holds them: stripped.
Keywords == {kw \in Strings(KeywordChars, MaxKeyword) : Strip(kw) = kw}
Titles == Strings(TitleChars, MaxTitle)
Bodies == { << >>, <<"q", "S">> }

\* run_once: key_re = _key_regex(keyword)
CompileKey ==
    /\ fn.op = "match"
    /\ fn.pc = "input"
    /\ fn' = [fn EXCEPT !.pc = "compiled", !.pattern = Escape(fn.keyword)]
    /\ UNCHANGED << store, lockHolder, feed, proc, started, history, retry, tokens, resp, now, uuids >>

\* run_once: key_re.search(title) or key_re.search(body)
SearchPost ==
    /\ fn.op = "match"
    /\ fn.pc = "compiled"
    /\ fn' = [fn EXCEPT !.pc = "searched",
                        !.matched = RegexSearch(fn.pattern, fn.title)
                                    \/ RegexSearch(fn.pattern, fn.selftext)]
    /\ UNCHANGED << store, lockHolder, feed, proc, started, history, retry, tokens, resp, now, uuids >>

\* One keyword tested against one post.
InitMatch ==
    /\ users = UserRows
    /\ alerts = AlertRows
    /\ deliveries = EmptyBag
    /\ checkpoints = << >>
    /\ lockHolder = "none"
    /\ feed = {}
    /\ proc = [p \in Procs |-> Fresh]
    /\ sent = EmptyBag
    /\ started = 0
    /\ unrecorded = EmptyBag
    /\ beforeSend = FALSE
    /\ retry = NoRetry
    /\ tokens = {}
    /\ resp = NoResp
    /\ now = 0
    /\ uuids = 0
    /\ \E kw \in Keywords, t \in Titles, b \in Bodies :
          fn = [op |-> "match", pc |-> "input", keyword |-> kw, title |-> t,
                selftext |-> b, pattern |-> << >>, matched |-> FALSE]

NextMatch == CompileKey \/ SearchPost

SpecMatch == InitMatch /\ [][NextMatch]_vars

\* ------------------------------------------------------------ alerts API
\* uuid4 values drawn for alerts rows.
MaxUuids == 3

Emails == {"a@x", "b@x"}

\* What a client may send as an email: an address, or text that is none.
EmailInputs == Emails \cup {"bad"}

\* validate_email(email, check_deliverability=False) / EmailStr
ValidEmail(email) == email \in Emails

\* The Authorization header: absent, a bearer token that does not decode,
\* or the token create_access_token(data={"sub": email}) issued to the
\* sender.
NoAuthorization == [scheme |-> "none", sub |-> "none"]
CredentialsOf(sender) ==
    { NoAuthorization,
      [scheme |-> "Bearer", sub |-> "none"],
      [scheme |-> "Bearer", sub |-> sender] }

HasUser(table, email) == \E i \in 1..Len(table) : table[i].email = email

\* get_current_user: the header is "Bearer <token>", the token decodes to a
\* "sub" and a users row has that email; HTTP 401 otherwise.
Authenticated(authorization, table) ==
    /\ authorization.scheme = "Bearer"
    /\ authorization.sub # "none"
    /\ HasUser(table, authorization.sub)

SubredditRequests == { << >>, <<"w">>, <<"W">>, <<"r", "/", "w">> }
KeywordRequests == { <<"s">>, <<" ", "s">> }

\* AlertService.get_or_create_user: the users table after the call.
WithUser(table, email) ==
    IF HasUser(table, email) THEN table
    ELSE Append(table, [id |-> email, email |-> email, password_hash |-> NoHash])

\* A duplicate lookup that finds nothing.
AlertExists_Never(table, user_id, subreddit, keyword) == FALSE

\* db.query(Alert).filter(user_id, subreddit, keyword).first() is not None
AlertExists(table, user_id, subreddit, keyword) ==
    \E i \in 1..Len(table) :
        /\ table[i].user_id = user_id
        /\ table[i].subreddit = subreddit
        /\ table[i].keyword = keyword

\* UniqueConstraint("user_id", "subreddit", "keyword") refuses the insert.
AlertConflict(table, row) ==
    \E i \in 1..Len(table) :
        /\ table[i].user_id = row.user_id
        /\ table[i].subreddit = row.subreddit
        /\ table[i].keyword = row.keyword

HasAlert(table, alert_id) == \E i \in 1..Len(table) : table[i].id = alert_id
AlertById(table, alert_id) == table[CHOOSE i \in 1..Len(table) : table[i].id = alert_id]

\* alert_id of a response that names no alert.
NoAlert == 0

\* The request handled and the response sent: sender is the person who sent
\* it, authorization and email are what the request carried.
Response(op, sender, authorization, email, alert_id, code) ==
    [op |-> op, sender |-> sender, authorization |-> authorization,
     email |-> email, alert_id |-> alert_id, status |-> code]

\* POST /alerts/
CreateAlert ==
    \E sender \in Emails, email \in EmailInputs,
       sub \in SubredditRequests, kw \in KeywordRequests :
      \E authorization \in CredentialsOf(sender) :
        LET subreddit == StoredSubreddit(StoredSubreddit(sub))
            keyword == StoredKeyword(StoredKeyword(kw))
            row == [id |-> uuids + 1, user_id |-> email, subreddit |-> subreddit,
                    keyword |-> keyword, is_active |-> TRUE]
            Answer(alert_id, code) ==
                resp' = Response("create", sender, authorization, email, alert_id, code)
                        @@ [subreddit |-> subreddit, keyword |-> keyword]
        IN  /\ IF ~ValidEmail(email) \/ Len(sub) < 1 \/ Len(kw) < 1
               THEN /\ Answer(NoAlert, 422)
                    /\ UNCHANGED << users, alerts, uuids >>
               ELSE IF AlertExists(alerts, email, subreddit, keyword)
               THEN /\ Answer(NoAlert, 409)
                    /\ users' = WithUser(users, email)
                    /\ UNCHANGED << alerts, uuids >>
               ELSE IF AlertConflict(alerts, row)
               THEN /\ Answer(NoAlert, 500)
                    /\ users' = WithUser(users, email)
                    /\ UNCHANGED << alerts, uuids >>
               ELSE /\ uuids < MaxUuids
                    /\ Answer(row.id, 201)
                    /\ users' = WithUser(users, email)
                    /\ alerts' = Append(alerts, row)
                    /\ uuids' = uuids + 1
            /\ UNCHANGED << deliveries, checkpoints, lockHolder, feed, proc, started,
                            history, retry, tokens, fn, now >>

\* GET /alerts/?email=
ListAlerts ==
    \E sender \in Emails, email \in EmailInputs :
      \E authorization \in CredentialsOf(sender) :
        /\ resp' = Response("list", sender, authorization, email, NoAlert,
                            IF ValidEmail(email) THEN 200 ELSE 400)
        /\ UNCHANGED << store, lockHolder, feed, proc, started, history, retry,
                        tokens, fn, now, uuids >>

\* DELETE /alerts/{alert_id}?email=
DeleteAlert ==
    \E sender \in Emails, email \in EmailInputs, alert_id \in 1..(MaxUuids + 1) :
      \E authorization \in CredentialsOf(sender) :
        LET Answer(code) ==
                resp' = Response("delete", sender, authorization, email, alert_id, code)
        IN  /\ IF ~HasAlert(alerts, alert_id)
               THEN Answer(404) /\ UNCHANGED alerts
               ELSE IF AlertById(alerts, alert_id).user_id # email
               THEN Answer(403) /\ UNCHANGED alerts
               ELSE /\ Answer(200)
                    /\ alerts' = SelectSeq(alerts, LAMBDA a : a.id # alert_id)
            /\ UNCHANGED << users, deliveries, checkpoints, lockHolder, feed, proc,
                            started, history, retry, tokens, fn, now, uuids >>

\* The alerts API of app/main.py on an empty database, used by two people.
InitAlertApi ==
    /\ users = << >>
    /\ alerts = << >>
    /\ deliveries = EmptyBag
    /\ checkpoints = << >>
    /\ lockHolder = "none"
    /\ feed = {}
    /\ proc = [p \in Procs |-> Fresh]
    /\ sent = EmptyBag
    /\ started = 0
    /\ unrecorded = EmptyBag
    /\ beforeSend = FALSE
    /\ retry = NoRetry
    /\ tokens = {}
    /\ resp = NoResp
    /\ fn = NoFn
    /\ now = 0
    /\ uuids = 0

NextAlertApi == CreateAlert \/ ListAlerts \/ DeleteAlert

SpecAlertApi == InitAlertApi /\ [][NextAlertApi]_vars

\* ------------------------------------------------------------ AuthService
\* Password reset tokens ever generated, and the clock's last value.
MaxTokens == 2
MaxNow == 2

\* settings.password_reset_token_expire_hours, as one unit of now.
TOKEN_LIFETIME == 1

Passwords == {"Pw1", "Pw2", "weak"}

\* validate_password(password)[0]
ValidPassword(password) == password # "weak"

\* hash_password(password)
HashPassword(password) ==
    CASE password = "Pw1" -> "hash1"
      [] password = "Pw2" -> "hash2"
      [] OTHER -> "hash0"

UserIndex(table, email) == CHOOSE i \in 1..Len(table) : table[i].email = email

\* A users table in which no row ever counts as having a password.
HasPassword_Never(table, email) == FALSE

\* existing_user and existing_user.password_hash
HasPassword(table, email) ==
    HasUser(table, email) /\ table[UserIndex(table, email)].password_hash # NoHash

\* user.password_hash = hash_password(password)
SetPassword(table, email, password) ==
    [table EXCEPT ![UserIndex(table, email)].password_hash = HashPassword(password)]

AuthResponse(op, email, token, code) ==
    [op |-> op, email |-> email, token |-> token, status |-> code]

NoToken == 0

\* manage.py add-user / AlertService.get_or_create_user: a users row without
\* a password.
AddUser ==
    \E email \in Emails :
        /\ ~HasUser(users, email)
        /\ users' = WithUser(users, email)
        /\ resp' = AuthResponse("add_user", email, NoToken, 0)
        /\ UNCHANGED << alerts, deliveries, checkpoints, lockHolder, feed, proc,
                        started, history, retry, tokens, fn, now, uuids >>

\* AuthService.register_user
RegisterUser ==
    \E email \in Emails, password \in Passwords :
        LET Answer(code) == resp' = AuthResponse("register", email, NoToken, code)
        IN  /\ IF ~ValidPassword(password)
               THEN Answer(400) /\ UNCHANGED users
               ELSE IF HasPassword(users, email)
               THEN Answer(400) /\ UNCHANGED users
               ELSE IF HasUser(users, email)
               THEN Answer(201) /\ users' = SetPassword(users, email, password)
               ELSE /\ Answer(201)
                    /\ users' = Append(users, [id |-> email, email |-> email,
                                                password_hash |-> HashPassword(password)])
            /\ UNCHANGED << alerts, deliveries, checkpoints, lockHolder, feed, proc,
                            started, history, retry, tokens, fn, now, uuids >>

\* AuthService.login_user
LoginUser ==
    \E email \in Emails, password \in Passwords :
        /\ resp' = AuthResponse("login", email, NoToken,
                        IF ~HasUser(users, email) THEN 401
                        ELSE IF ~HasPassword(users, email) THEN 403
                        ELSE IF users[UserIndex(users, email)].password_hash
                                    # HashPassword(password) THEN 401
                        ELSE 200)
        /\ UNCHANGED << store, lockHolder, feed, proc, started, history, retry,
                        tokens, fn, now, uuids >>

\* AuthService.setup_password
SetupPassword ==
    \E email \in Emails, password \in Passwords :
        LET Answer(code) == resp' = AuthResponse("setup_password", email, NoToken, code)
        IN  /\ IF ~ValidPassword(password)
               THEN Answer(400) /\ UNCHANGED users
               ELSE IF ~HasUser(users, email)
               THEN Answer(404) /\ UNCHANGED users
               ELSE IF HasPassword(users, email)
               THEN Answer(400) /\ UNCHANGED users
               ELSE Answer(200) /\ users' = SetPassword(users, email, password)
            /\ UNCHANGED << alerts, deliveries, checkpoints, lockHolder, feed, proc,
                            started, history, retry, tokens, fn, now, uuids >>

\* A reset request that leaves the user's earlier tokens as they are.
RequestPasswordReset_KeepsOld ==
    \E email \in Emails :
        /\ IF ~HasPassword(users, email)
           THEN /\ resp' = AuthResponse("forgot_password", email, NoToken, 200)
                /\ UNCHANGED << tokens, uuids >>
           ELSE /\ uuids < MaxTokens
                /\ resp' = AuthResponse("forgot_password", email, uuids + 1, 200)
                /\ tokens' = tokens \cup { [token |-> uuids + 1,
                                             user_id |-> users[UserIndex(users, email)].id,
                                             expires_at |-> now + TOKEN_LIFETIME,
                                             used |-> FALSE] }
                /\ uuids' = uuids + 1
        /\ UNCHANGED << store, lockHolder, feed, proc, started, history, retry,
                        fn, now >>

\* AuthService.request_password_reset: nothing for an unknown user or one
\* without password; otherwise the user's unused tokens are marked used and
\* a new token is stored.  A failure to send the email is logged only.
RequestPasswordReset ==
    \E email \in Emails :
        /\ IF ~HasPassword(users, email)
           THEN /\ resp' = AuthResponse("forgot_password", email, NoToken, 200)
                /\ UNCHANGED << tokens, uuids >>
           ELSE /\ uuids < MaxTokens
                /\ resp' = AuthResponse("forgot_password", email, uuids + 1, 200)
                /\ tokens' =
                      { IF t.user_id = users[UserIndex(users, email)].id
                        THEN [t EXCEPT !.used = TRUE] ELSE t : t \in tokens }
                      \cup { [token |-> uuids + 1,
                              user_id |-> users[UserIndex(users, email)].id,
                              expires_at |-> now + TOKEN_LIFETIME,
                              used |-> FALSE] }
                /\ uuids' = uuids + 1
        /\ UNCHANGED << store, lockHolder, feed, proc, started, history, retry,
                        fn, now >>

\* A reset that leaves its token unused.
ResetPassword_Reusable ==
    \E token \in 1..(MaxTokens + 1), password \in Passwords :
        LET Answer(email, code) == resp' = AuthResponse("reset_password", email, token, code)
            found == {t \in tokens : t.token = token}
            reset_token == CHOOSE t \in found : TRUE
        IN  /\ IF ~ValidPassword(password) \/ found = {}
               THEN Answer("none", 400) /\ UNCHANGED users
               ELSE IF reset_token.used \/ now > reset_token.expires_at
               THEN Answer(reset_token.user_id, 400) /\ UNCHANGED users
               ELSE /\ Answer(reset_token.user_id, 200)
                    /\ users' = SetPassword(users, reset_token.user_id, password)
            /\ UNCHANGED << alerts, deliveries, checkpoints, lockHolder, feed, proc,
                            started, history, retry, tokens, fn, now, uuids >>

\* AuthService.reset_password
ResetPassword ==
    \E token \in 1..(MaxTokens + 1), password \in Passwords :
        LET Answer(email, code) == resp' = AuthResponse("reset_password", email, token, code)
            found == {t \in tokens : t.token = token}
            reset_token == CHOOSE t \in found : TRUE
        IN  /\ IF ~ValidPassword(password) \/ found = {}
               THEN Answer("none", 400) /\ UNCHANGED << users, tokens >>
               ELSE IF reset_token.used \/ now > reset_token.expires_at
               THEN Answer(reset_token.user_id, 400) /\ UNCHANGED << users, tokens >>
               ELSE /\ Answer(reset_token.user_id, 200)
                    /\ users' = SetPassword(users, reset_token.user_id, password)
                    /\ tokens' = (tokens \ {reset_token})
                                  \cup {[reset_token EXCEPT !.used = TRUE]}
            /\ UNCHANGED << alerts, deliveries, checkpoints, lockHolder, feed, proc,
                            started, history, retry, fn, now, uuids >>

\* Time passes.
Tick ==
    /\ now < MaxNow
    /\ now' = now + 1
    /\ UNCHANGED << store, lockHolder, feed, proc, started, history, retry,
                    tokens, resp, fn, uuids >>

\* Calls of AuthService by two people over an empty users table, with users
\* that were created without a password.
NextAuth ==
    \/ AddUser \/ RegisterUser \/ LoginUser \/ SetupPassword
    \/ RequestPasswordReset \/ ResetPassword \/ Tick

SpecAuth == InitAlertApi /\ [][NextAuth]_vars

\* ------------------------------------------------------- claims: vocabulary
\* Positions inside run_once().
CyclePcs == {"load", "client", "group", "fetch", "dedupe", "send", "record",
             "checkpoint", "return"}

\* The process has made its acquire() call and is still alive.
PastAcquire(p) == proc[p].pc \in CyclePcs \cup {"denied"}

Sent(pair) == CopiesIn(pair, sent)
Delivered(pair) == CopiesIn(pair, deliveries)
Pairs == AlertIds \X PostIds

\* ------------------------------------------------------------------ C1
\* C1. Lock exclusivity: among pollers started without --skip-lock at most
\* one is inside the locked section at any time, a poller runs cycle steps
\* only while it holds the lock, and of two live processes that have both
\* called acquire() exactly one got true; the refused one is already at its
\* exit (it never waits for the lock).
C1_LockExclusivity ==
    /\ Cardinality({p \in Procs : proc[p].lock_acquired}) <= 1
    /\ \A p \in Procs :
        /\ proc[p].pc \in CyclePcs => proc[p].lock_acquired
        /\ proc[p].pc = "denied" => ~proc[p].lock_acquired /\ lockHolder # p
        /\ proc[p].lock_acquired => lockHolder = p
    /\ \A p, q \in Procs :
        p # q /\ PastAcquire(p) /\ PastAcquire(q)
            => (proc[p].lock_acquired /\ ~proc[q].lock_acquired)
               \/ (proc[q].lock_acquired /\ ~proc[p].lock_acquired)

\* Two processes have called acquire(): one is sending inside the locked
\* section, the other was refused.
C1_Witness ==
    \E p, q \in Procs :
        /\ p # q
        /\ proc[p].pc = "send" /\ proc[p].lock_acquired
        /\ proc[q].pc = "denied"

C3_AtMostOneEver == \A pair \in Pairs : Sent(pair) <= 1

\* C3 as amended: for pollers that take the lock, crashing at any step and
\* restarted, the emails sent for a pair are at most one more than the sends
\* for that pair whose Delivery commit did not follow (a crash, or a failed
\* commit, between the two).
C3_AtMostOnePerUnrecorded ==
    \A pair \in Pairs : Sent(pair) <= 1 + CopiesIn(pair, unrecorded)

\* A pair was sent twice, one send having lost its Delivery commit.
C3_Witness ==
    \E pair \in Pairs : Sent(pair) = 2 /\ CopiesIn(pair, unrecorded) = 1

\* ------------------------------------------------------------------ C4
\* C4. Checkpoint monotonicity: the value a cycle is about to write for a
\* group is at least the value it read for it, and no step removes or lowers
\* a stored checkpoint.
C4_CheckpointMonotone ==
    /\ [](\A p \in Procs :
            proc[p].pc = "checkpoint" =>
                proc[p].max_seen >= (IF proc[p].chk.present THEN proc[p].chk.value ELSE 0))
    /\ [][\A k \in DOMAIN checkpoints :
            k \in DOMAIN checkpoints' /\ checkpoints'[k] >= checkpoints[k]]_vars

\* A cycle is about to write a group whose stored checkpoint is newer than
\* every post it fetched (the newer posts have left the listing).
C4_Witness ==
    \E p \in Procs :
        /\ proc[p].pc = "checkpoint"
        /\ proc[p].chk.present
        /\ proc[p].posts # <<>>
        /\ \A i \in 1..Len(proc[p].posts) : Created(proc[p].posts[i]) < proc[p].chk.value

\* ------------------------------------------------------------------ C5
\* C5. A post created at or before the checkpoint the cycle read for its
\* group is never matched: no process is at the dedupe, send or record of
\* such a post, and every email and every Delivery row that appears is for a
\* post newer than the checkpoint read by the process that produced it.
C5_SeenNeverRematched ==
    /\ [](\A p \in Procs :
            proc[p].pc \in {"dedupe", "send", "record"} =>
                Created(CurPost(proc[p])) > (IF proc[p].chk.present THEN proc[p].chk.value ELSE 0))
    /\ [][\A pair \in Pairs :
            (CopiesIn(pair, sent') > Sent(pair) \/ CopiesIn(pair, deliveries') > Delivered(pair))
                => \E p \in Procs :
                    /\ proc[p].pc \in {"send", "record"}
                    /\ CurPair(proc[p]) = pair
                    /\ Created(pair[2]) > (IF proc[p].chk.present THEN proc[p].chk.value ELSE 0)]_vars

\* A cycle that read checkpoint 1 fetched the older post x and the newer
\* matching post y: it is sending for y, having passed over x.
C5_Witness ==
    \E p \in Procs :
        /\ proc[p].pc = "send"
        /\ proc[p].chk.present /\ proc[p].chk.value >= 1
        /\ \E i \in 1..Len(proc[p].posts) :
            i < proc[p].pi /\ Created(proc[p].posts[i]) <= proc[p].chk.value

\* ------------------------------------------------ claims: more vocabulary
\* The pair of an active subscription whose owner has an address and of a
\* listed post of its subreddit that matches its keyword.
Eligible(pair) ==
    \E i \in 1..Len(alerts) :
        /\ alerts[i].id = pair[1]
        /\ alerts[i].is_active
        /\ UserEmail(users, alerts[i].user_id) # ""
        /\ pair[2] \in feed
        /\ Lower(Post(pair[2]).subreddit) = PairKey(alerts[i])[1]
        /\ Matches(PairKey(alerts[i])[2], pair[2])

KeyOf(alert_id) == PairKey(CHOOSE r \in Range(AlertRows) : r.id = alert_id)

\* The stored checkpoint of the pair's group has reached the pair's post:
\* a cycle has gone through the group with the post fetched, and no later
\* cycle will match the post.
Passed(pair) ==
    /\ KeyOf(pair[1]) \in DOMAIN checkpoints
    /\ checkpoints[KeyOf(pair[1])] >= Created(pair[2])

\* ------------------------------------------------------------------ C6
\* C6 as claimed, in the form a finite run refutes: a matching post of an
\* active subscription with an address is never left behind the checkpoint
\* without its Delivery, so a send that failed is tried again by a later
\* cycle.
C6_NoMissedNotification ==
    \A pair \in Pairs : Eligible(pair) /\ Passed(pair) => Delivered(pair) >= 1

\* ------------------------------------------------------------------ C7
\* C7. Crash safety, crashes being the only failure and the listing fixed:
\* once a cycle has gone through the group of an eligible pair, the pair has
\* its Delivery and exactly one email, plus one for each crash that fell
\* between a send for that pair and its commit; and at no time has a pair
\* more emails than that.
C7_CrashSafety ==
    \A pair \in Pairs :
        /\ Sent(pair) <= 1 + CopiesIn(pair, unrecorded)
        /\ Eligible(pair) /\ Passed(pair) =>
            /\ Delivered(pair) = 1
            /\ Sent(pair) = 1 + CopiesIn(pair, unrecorded)

\* A cycle crashed between a match and its send, no send lost its commit,
\* and a later cycle has gone through every group: each eligible pair has
\* exactly one email and its Delivery.
C7_Witness ==
    /\ beforeSend
    /\ unrecorded = EmptyBag
    /\ \A p \in Procs : proc[p].pc = "idle"
    /\ \E pair \in Pairs : Eligible(pair)
    /\ \A pair \in Pairs :
        Eligible(pair) => Passed(pair) /\ Sent(pair) = 1 /\ Delivered(pair) = 1

\* ------------------------------------------------------------------ C8
\* C8. Check-send-record ordering: every Delivery row has an email sent for
\* its pair; a process at the send has found no Delivery for the pair; a
\* process at the record has sent for the pair; and an email without a
\* Delivery row is that of a process now at its record step, or one whose
\* commit was lost there (crash, failed commit): nothing else is handled
\* between a send and its record.
C8_CheckSendRecord ==
    /\ \A pair \in Pairs : Delivered(pair) >= 1 => Sent(pair) >= 1
    /\ \A p \in Procs :
        /\ proc[p].pc = "send" => Delivered(CurPair(proc[p])) = 0
        /\ proc[p].pc = "record" => Sent(CurPair(proc[p])) >= 1
    /\ \A pair \in Pairs :
        Sent(pair) >= 1 /\ Delivered(pair) = 0 =>
            \/ \E p \in Procs : proc[p].pc = "record" /\ CurPair(proc[p]) = pair
            \/ CopiesIn(pair, unrecorded) >= 1

\* A process has sent and recorded for the first subscription of a group and
\* is at the dedupe lookup of the second.
C8_Witness ==
    \E p \in Procs :
        /\ proc[p].pc = "dedupe"
        /\ proc[p].ai = 2
        /\ Sent(<<Group(proc[p]).alerts[1].id, CurPost(proc[p])>>) = 1
        /\ Delivered(<<Group(proc[p]).alerts[1].id, CurPost(proc[p])>>) = 1

\* ------------------------------------------------------------------ C9
\* C9. With pollers running at the same time (--skip-lock), the deliveries
\* table never holds two rows for one (alert_id, reddit_post_id); the insert
\* of a pair that has a row leaves the table as it was, and the process goes
\* on to the next subscription.
C9_DeliveryUnique ==
    /\ [](\A pair \in Pairs : Delivered(pair) <= 1)
    /\ [][\A p \in Procs :
            (proc[p].pc = "record" /\ proc'[p] # proc[p] /\ Delivered(CurPair(proc[p])) >= 1)
                => /\ deliveries' = deliveries
                   /\ proc'[p] = NextAlert(proc[p])]_vars

\* Two pollers have both sent for a pair; one row is stored and the second
\* insert has been refused (no process is left at a record step).
C9_Witness ==
    \E pair \in Pairs :
        /\ Sent(pair) = 2
        /\ Delivered(pair) = 1
        /\ \A p \in Procs : proc[p].pc # "record"

\* ------------------------------------------------------------------ C10
\* C10. With one active subscription, no checkpoint and no deliveries, and a
\* listing of exactly one post, which matches and has created = t > 0: when
\* the first cycle returns, it has sent one email (its summary says 1), the
\* mailbox holds that one email, the deliveries table that one row, and the
\* checkpoint of the pair is t.
C10_Scenario ==
    \A p \in Procs : \A id \in PostIds :
        ( /\ alerts = OneAlert
          /\ feed = {id}
          /\ Eligible(<<OneAlert[1].id, id>>)
          /\ Created(id) > 0
          /\ started = 1
          /\ proc[p].pc = "return" )
        => /\ proc[p].result.emails = 1
           /\ ~proc[p].result.error
           /\ sent = SetToBag({<<OneAlert[1].id, id>>})
           /\ deliveries = SetToBag({<<OneAlert[1].id, id>>})
           /\ checkpoints = (PairKey(OneAlert[1]) :> Created(id))

\* The first cycle of the scenario has reached its return.
C10_Witness ==
    \E p \in Procs :
        /\ alerts = OneAlert
        /\ feed = {"y"}
        /\ started = 1
        /\ proc[p].pc = "return"
        /\ proc[p].result.scanned_pairs = 1

\* --------------------------------------------------------------- claims: retry
RECURSIVE SumSeq(_)
SumSeq(q) == IF q = <<>> THEN 0 ELSE q[1] + SumSeq(Tail(q))

\* C11: with max_retries = n >= 1, func is never called more than n times; a
\* call of retry_on_error that ends by raising a retryable error has called
\* func exactly n times (every attempt raised one); one that ends by
\* returning after k - 1 failed attempts has called func exactly k <= n
\* times; and it always ends by returning func's result or by raising.
C11_RetryExhaustion ==
    retry.max_retries >= 1 =>
        /\ retry.calls <= retry.max_retries
        /\ retry.status # "none_returned"
        /\ retry.status = "running" =>
              retry.calls = retry.attempt /\ retry.attempt < retry.max_retries
        /\ (retry.status = "raised" /\ retry.error \in RetryableErrors) =>
              retry.calls = retry.max_retries
        /\ retry.status = "returned" =>
              retry.calls = Len(retry.sleeps) + 1 /\ retry.calls = retry.attempt + 1

C11_Witness ==
    /\ retry.max_retries = 3
    /\ retry.status = "raised"
    /\ retry.error = "PRAWException"
    /\ retry.calls = 3

\* C12: a call of func that raises an error outside the retryable set ends
\* retry_on_error at once with that error: no sleep is taken for it and
\* func is not called again (so an operation whose first call raises such
\* an error is called exactly once, with no sleep at all).
C12_NonRetryablePropagates ==
    [][ /\ ( /\ retry'.calls = retry.calls + 1
             /\ retry'.status # "returned"
             /\ retry'.error \notin RetryableErrors )
          => /\ retry'.status = "raised"
             /\ retry'.sleeps = retry.sleeps
             /\ retry.calls = 0 => (retry'.calls = 1 /\ retry'.sleeps = <<>>)
        /\ retry.status = "raised" => retry' = retry ]_vars

C12_Witness ==
    /\ retry.func = "fetch_new"
    /\ retry.max_retries = 3
    /\ retry.delay > 0
    /\ retry.status = "raised"
    /\ retry.error = "Exception"
    /\ retry.calls = 1
    /\ retry.sleeps = <<>>

\* C13: the sleep taken after failed attempt i (0-based) is delay * 2^i, and
\* there is one only when i < max_retries - 1; on exhaustion the sleeps
\* taken are those of attempts 0 .. max_retries - 2, delay *
\* (2^(max_retries - 1) - 1) in all.
C13_BackoffSchedule ==
    /\ \A i \in 1..Len(retry.sleeps) :
          /\ retry.sleeps[i] = retry.delay * (2 ^ (i - 1))
          /\ i - 1 < retry.max_retries - 1
    /\ (retry.status = "raised" /\ retry.error \in RetryableErrors) =>
          /\ Len(retry.sleeps) = retry.max_retries - 1
          /\ SumSeq(retry.sleeps) = retry.delay * (2 ^ (retry.max_retries - 1) - 1)

C13_Witness ==
    /\ retry.max_retries = 3
    /\ retry.delay = 2
    /\ retry.status = "raised"
    /\ retry.error = "RequestException"
    /\ retry.sleeps = << 2, 4 >>

\* C14: a call retry_on_error(send_email, ...) that ends by raising has
\* attempted send_email max_retries times.
C14_SendFailuresRetried ==
    (retry.func = "send_email" /\ retry.status = "raised") =>
        retry.calls = retry.max_retries

\* ---------------------------------------------------------------- claims: lock
\* C15: the step in which acquire() returns False changes neither the store,
\* the mailbox nor the lock and leaves lock_acquired false; the only step the
\* denied process takes after it is its exit, with status 0, which again
\* changes neither the store, the mailbox nor the lock: it never enters
\* run_once (no fetch, no send, no Delivery or Checkpoint write).
C15_DeniedExitsClean ==
    [][ \A p \in Procs :
          /\ (proc[p].pc = "acquire" /\ proc'[p].pc = "denied") =>
                /\ ~proc'[p].lock_acquired
                /\ UNCHANGED << store, sent, lockHolder >>
          /\ (proc[p].pc = "denied" /\ proc'[p] # proc[p]) =>
                /\ proc'[p].pc = "idle"
                /\ proc'[p].exit_code = ExitOk
                /\ UNCHANGED << store, sent, lockHolder >> ]_vars

C15_Witness ==
    \E p, q \in Procs :
        /\ p # q
        /\ proc[p].pc = "denied"
        /\ lockHolder = q
        /\ proc[q].pc = "send"

\* C16: a process that is outside poller_lock's scope (not started, waiting
\* to acquire, denied, or gone through any exit: run_once returning, an
\* uncaught exception in the cycle or in the loop, sys.exit) does not hold
\* the lock and its lock_acquired is false.
C16_ReleasedOnEveryExit ==
    \A p \in Procs :
        proc[p].pc \in {"idle", "acquire", "denied"} =>
            lockHolder # p /\ ~proc[p].lock_acquired

C16_Witness ==
    \E p, q \in Procs :
        /\ p # q
        /\ proc[p].pc = "idle"
        /\ proc[p].exit_code = ExitError
        /\ proc[p].releases = 1
        /\ lockHolder = q
        /\ proc[q].lock_acquired

\* C17: a call of release() on a PollerLock whose lock_acquired is false
\* (acquire() never called, acquire() returned False, or release() already
\* called after a successful acquire) changes neither the lock nor the store
\* and leaves lock_acquired false; and no call of release() takes the lock
\* away from another process.
C17_ReleaseIdempotent ==
    [][ \A p \in Procs :
          proc'[p].releases = proc[p].releases + 1 =>
            /\ ~proc'[p].lock_acquired
            /\ ~proc[p].lock_acquired => UNCHANGED << lockHolder, store, sent >>
            /\ lockHolder' # lockHolder => (lockHolder = p /\ lockHolder' = "none") ]_vars

C17_Witness ==
    \E p, q \in Procs :
        /\ p # q
        /\ proc[p].pc = "idle"
        /\ proc[p].releases = 2
        /\ proc[p].exit_code = ExitOk
        /\ lockHolder = q

C19_FetchFailureSkipsGroup ==
    [][ \A p \in Procs :
          /\ \A g \in proc'[p].failed :
                LET grp == proc'[p].pairs[g]
                IN  /\ \A i \in 1..Len(grp.alerts), post \in PostIds :
                          /\ CopiesIn(<< grp.alerts[i].id, post >>, sent') =
                                CopiesIn(<< grp.alerts[i].id, post >>, sent)
                          /\ CopiesIn(<< grp.alerts[i].id, post >>, deliveries') =
                                CopiesIn(<< grp.alerts[i].id, post >>, deliveries)
                    /\ (grp.key \in DOMAIN checkpoints') = (grp.key \in DOMAIN checkpoints)
                    /\ grp.key \in DOMAIN checkpoints =>
                          checkpoints'[grp.key] = checkpoints[grp.key]
          /\ (proc'[p].failed # proc[p].failed /\ proc'[p].failed # {}) =>
                IF proc[p].gi < Len(proc[p].pairs)
                THEN /\ proc'[p].pc = "group"
                     /\ proc'[p].gi = proc[p].gi + 1
                ELSE /\ proc'[p].pc = "return"
                     /\ ~proc'[p].result.error
                     /\ proc'[p].result.scanned_pairs = Len(proc[p].pairs) ]_vars

\* The first group's fetch failed, a later group was processed and notified,
\* and the first group's matching post is left without email, Delivery or
\* Checkpoint.
C19_Witness ==
    \E p \in Procs :
        /\ alerts = AlertRows
        /\ "y" \in feed
        /\ proc[p].pc = "return"
        /\ proc[p].failed = {1}
        /\ started = 1
        /\ Sent(<< "a1", "y" >>) = 0
        /\ Delivered(<< "a1", "y" >>) = 0
        /\ proc[p].pairs[1].key \notin DOMAIN checkpoints
        /\ Sent(<< "a3", "z" >>) = 1
        /\ proc[p].pairs[2].key \in DOMAIN checkpoints

\* C20: a cycle whose client construction fails goes from there straight to
\* its return with the summary {scanned_pairs 0, emails 0, error}: it has
\* processed no group (no fetch failed or succeeded, nothing sent) and, when
\* it is the first cycle ever, mailbox, deliveries and checkpoints are still
\* empty; neither the failing step nor the exit that follows changes store
\* or mailbox, and after that exit the process no longer holds the lock.
C20_ClientFailureAbortsCycle ==
    /\ [](\A p \in Procs :
            proc[p].result.error =>
                /\ proc[p].pc = "return"
                /\ proc[p].result.returned
                /\ proc[p].result.scanned_pairs = 0
                /\ proc[p].result.emails = 0
                /\ proc[p].total_emails = 0
                /\ proc[p].gi = 0
                /\ proc[p].failed = {}
                /\ started = 1 =>
                      (sent = EmptyBag /\ deliveries = EmptyBag /\ checkpoints = << >>))
    /\ [][ \A p \in Procs :
              /\ (~proc[p].result.error /\ proc'[p].result.error) =>
                    (proc[p].pc = "client" /\ UNCHANGED << store, sent, lockHolder >>)
              /\ (proc[p].result.error /\ proc'[p] # proc[p]) =>
                    /\ proc'[p].pc = "idle"
                    /\ lockHolder' # p
                    /\ ~proc'[p].lock_acquired
                    /\ UNCHANGED << store, sent >> ]_vars

C20_Witness ==
    \E p \in Procs :
        /\ alerts = AlertRows
        /\ feed = PostIds
        /\ proc[p].pc = "return"
        /\ proc[p].result.error
        /\ proc[p].lock_acquired
        /\ lockHolder = p

\* C21: the step in which a send fails (the process leaves the send without
\* an email going out) writes no Delivery and leaves total_emails as it
\* was, and goes on within the same group: to the next alert of the post
\* when there is one, else to the next matching post, else to the group's
\* checkpoint step after the last post.
C21_SendFailureSkipsOneDelivery ==
    [][ \A p \in Procs :
          (proc[p].pc = "send" /\ proc'[p] # proc[p] /\ sent' = sent) =>
            /\ deliveries' = deliveries
            /\ proc'[p].total_emails = proc[p].total_emails
            /\ proc'[p].gi = proc[p].gi
            /\ proc'[p].posts = proc[p].posts
            /\ IF proc[p].ai < Len(Group(proc[p]).alerts)
               THEN /\ proc'[p].pc = "dedupe"
                    /\ proc'[p].ai = proc[p].ai + 1
                    /\ proc'[p].pi = proc[p].pi
               ELSE /\ proc'[p].pi > proc[p].pi
                    /\ \/ proc'[p].pc = "dedupe" /\ proc'[p].ai = 1
                       \/ /\ proc'[p].pc = "checkpoint"
                          /\ proc'[p].pi = Len(proc[p].posts) + 1 ]_vars

\* One cycle in which the send for (a1, y) failed and the next alert of the
\* same group was still notified and recorded.
C21_Witness ==
    \E p \in Procs :
        /\ started = 1
        /\ proc[p].pc = "return"
        /\ proc[p].result.emails >= 1
        /\ Sent(<< "a1", "y" >>) = 0
        /\ Delivered(<< "a1", "y" >>) = 0
        /\ Sent(<< "a2", "y" >>) = 1
        /\ Delivered(<< "a2", "y" >>) = 1

\* C22: the checkpoint step of a group, failed or not, touches no other
\* group's checkpoint and leaves this group's either as it was stored or at
\* max_seen, and the cycle goes on to the next group (or to its normal
\* return after the last); and a cycle that comes to a pair that already has
\* a Delivery, as the cycle after a failed checkpoint write does, sends
\* nothing for it.
C22_CheckpointFailureIsSafe ==
    [][ \A p \in Procs :
          /\ (proc[p].pc = "checkpoint" /\ proc'[p] # proc[p]) =>
                LET key == Group(proc[p]).key
                IN  /\ \A k \in (DOMAIN checkpoints \cup DOMAIN checkpoints') \ {key} :
                          /\ k \in DOMAIN checkpoints
                          /\ k \in DOMAIN checkpoints'
                          /\ checkpoints'[k] = checkpoints[k]
                    /\ \/ /\ key \in DOMAIN checkpoints'
                          /\ checkpoints'[key] = proc[p].max_seen
                       \/ /\ key \notin DOMAIN checkpoints'
                          /\ key \notin DOMAIN checkpoints
                       \/ /\ key \in DOMAIN checkpoints'
                          /\ key \in DOMAIN checkpoints
                          /\ checkpoints'[key] = checkpoints[key]
                    /\ IF proc[p].gi < Len(proc[p].pairs)
                       THEN proc'[p].pc = "group" /\ proc'[p].gi = proc[p].gi + 1
                       ELSE /\ proc'[p].pc = "return"
                            /\ ~proc'[p].result.error
                            /\ proc'[p].result.scanned_pairs = Len(proc[p].pairs)
          /\ ( /\ proc[p].pc = "dedupe"
               /\ proc'[p] # proc[p]
               /\ Delivered(CurPair(proc[p])) >= 1 ) =>
                /\ sent' = sent
                /\ deliveries' = deliveries
                /\ proc'[p].pc # "send" ]_vars

\* The second cycle reads no checkpoint for its group (the first cycle's
\* write failed), has come again to a post the first cycle notified and
\* recorded, and is about to look its Delivery up.
C22_Witness ==
    \E p \in Procs :
        /\ started = 2
        /\ proc[p].pc = "dedupe"
        /\ ~proc[p].chk.present
        /\ Group(proc[p]).key \notin DOMAIN checkpoints
        /\ Sent(CurPair(proc[p])) = 1
        /\ Delivered(CurPair(proc[p])) = 1

\* C23: a --loop process that has entered _run_loop never leaves it,
\* whatever a cycle raises or returns; every cycle it starts comes to the loop's sleep, and every sleep
\* is followed by the start of another cycle (as long as the run budget
\* MaxRuns lets one start).
C23_LoopSurvivesCycleFailure ==
    /\ [][ \A p \in Procs :
              (proc[p].loop /\ proc[p].pc \in CyclePcs \cup {"sleep"}) =>
                  (proc'[p].loop /\ proc'[p].pc \in CyclePcs \cup {"sleep"}) ]_vars
    /\ \A p \in Procs :
          /\ (proc[p].loop /\ proc[p].pc \in CyclePcs) ~> (proc[p].pc = "sleep")
          /\ (proc[p].pc = "sleep") ~> (proc[p].pc = "load" \/ started = MaxRuns)

\* A loop whose first cycle raised has slept and started its second cycle.
C23_Witness ==
    \E p \in Procs :
        /\ proc[p].loop
        /\ proc[p].pc = "load"
        /\ proc[p].logged_errors = 1
        /\ started = 2

\* ------------------------------------------------------------------ C24
\* The prefix of s removed when s starts with it, nothing otherwise.
RemovePrefix(s, prefix) ==
    IF Len(s) >= Len(prefix) /\ SubSeq(s, 1, Len(prefix)) = prefix
    THEN SubSeq(s, Len(prefix) + 1, Len(s))
    ELSE s

\* C24 (as stated): for every stored subreddit string s the fetch-group
\* source is lower(strip(s)) with one leading "r/" removed when present and
\* nothing else removed, and the group keyword is strip(keyword).
C24_SourceNormalization ==
    (fn.op = "key" /\ fn.pc = "keyed") =>
        /\ fn.key[1] = RemovePrefix(Lower(Strip(fn.row.subreddit)), <<"r", "/">>)
        /\ fn.key[2] = Strip(fn.row.keyword)

\* ------------------------------------------------------------------ C25
\* kw is a substring of text, character for character.
Occurs(kw, text) ==
    \E i \in 1..(Len(text) + 1) :
        /\ i + Len(kw) - 1 <= Len(text)
        /\ SubSeq(text, i, i + Len(kw) - 1) = kw

\* C25: a post matches a keyword exactly when the keyword occurs as a literal
\* substring of its title or of its body once letter case is put aside:
\* regex metacharacters of the keyword stand for themselves, and the outcome
\* depends on keyword and text only through their lower-cased forms.
C25_LiteralSubstringMatch ==
    (fn.op = "match" /\ fn.pc = "searched") =>
        (fn.matched <=> \/ Occurs(Lower(fn.keyword), Lower(fn.title))
                        \/ Occurs(Lower(fn.keyword), Lower(fn.selftext)))

\* The keyword "(s)" has matched the title "(S)".
C25_Witness ==
    /\ fn.op = "match"
    /\ fn.pc = "searched"
    /\ fn.keyword = <<"(", "s", ")">>
    /\ fn.title = <<"(", "S", ")">>
    /\ fn.selftext = << >>
    /\ fn.matched

\* ------------------------------------------------------------------ C26
AlertOps == {"create", "list", "delete"}

\* C26 (as stated): a request to an alert endpoint that carries no valid
\* bearer credential is answered 401 and changes nothing in the store.
C26_AlertEndpointsRequireCredential ==
    [][ (resp'.op \in AlertOps /\ ~Authenticated(resp'.authorization, users)) =>
            (resp'.status = 401 /\ UNCHANGED store) ]_vars

\* ------------------------------------------------------------------ C27
\* C27 (as stated): a delete sent by someone who is not the alert's owner is
\* answered 403, a delete of an alert that does not exist 404, both without
\* changing the alerts table; and an alert leaves the table only in a delete
\* sent by its owner.
C27_OnlyOwnerDeletes ==
    [][ /\ \A i \in 1..Len(alerts) :
              ~HasAlert(alerts', alerts[i].id) =>
                  /\ resp'.op = "delete"
                  /\ resp'.alert_id = alerts[i].id
                  /\ resp'.sender = alerts[i].user_id
        /\ (resp'.op = "delete" /\ ~HasAlert(alerts, resp'.alert_id)) =>
              (resp'.status = 404 /\ alerts' = alerts)
        /\ ( /\ resp'.op = "delete"
             /\ HasAlert(alerts, resp'.alert_id)
             /\ AlertById(alerts, resp'.alert_id).user_id # resp'.sender ) =>
              (resp'.status = 403 /\ alerts' = alerts) ]_vars

\* ------------------------------------------------------------------ C28
\* The owner has an alert on that stored subreddit and keyword.
Subscribed(owner, subreddit, keyword) ==
    \E a \in Range(alerts) :
        a.user_id = owner /\ a.subreddit = subreddit /\ a.keyword = keyword

\* C28: no two alerts rows have the same (user_id, subreddit, keyword), and
\* a create whose normalised subreddit and keyword the owner already has is
\* answered 409 and leaves the store as it was.
C28_SubscriptionUnique ==
    /\ [](\A i, j \in 1..Len(alerts) :
            ( /\ alerts[i].user_id = alerts[j].user_id
              /\ alerts[i].subreddit = alerts[j].subreddit
              /\ alerts[i].keyword = alerts[j].keyword ) => i = j)
    /\ [][ ( /\ resp'.op = "create"
             /\ ValidEmail(resp'.email)
             /\ Subscribed(resp'.email, resp'.subreddit, resp'.keyword) ) =>
               (resp'.status = 409 /\ UNCHANGED store) ]_vars

\* A create has been refused as a duplicate while its owner has another
\* alert too.
C28_Witness ==
    /\ resp.op = "create"
    /\ resp.status = 409
    /\ Cardinality({i \in 1..Len(alerts) : alerts[i].user_id = resp.email}) = 2

\* ------------------------------------------------------------------ C29
\* C29: for a user who has a password, a call (a step in which no time
\* passes) of register_user or setup_password is answered 400 and leaves the
\* users table as it was, and the user's row changes only in a
\* reset_password call that succeeds on a token of that user which was
\* stored, unused and not expired.
C29_PasswordNeverOverwritten ==
    [][ \A i \in 1..Len(users) :
          users[i].password_hash # NoHash =>
            /\ ( /\ now' = now
                 /\ resp'.op \in {"register", "setup_password"}
                 /\ resp'.email = users[i].email ) =>
                  (resp'.status = 400 /\ users' = users)
            /\ users'[i] # users[i] =>
                  /\ resp'.op = "reset_password"
                  /\ resp'.status = 200
                  /\ \E t \in tokens :
                        /\ t.token = resp'.token
                        /\ t.user_id = users[i].id
                        /\ ~t.used
                        /\ now <= t.expires_at ]_vars

\* A user whose password was changed by a reset has then been refused by
\* register_user.
C29_Witness ==
    /\ resp.op = "register"
    /\ resp.status = 400
    /\ \E i \in 1..Len(users) :
          /\ users[i].email = resp.email
          /\ users[i].password_hash = "hash2"
          /\ \E t \in tokens : t.user_id = users[i].id /\ t.used /\ now <= t.expires_at

\* ------------------------------------------------------------------ C30
\* C30 (as stated): a process whose acquire() returned False ends with a
\* summary reported, of 0 scanned and 0 emails.
C30_DeniedReportsSkippedSummary ==
    [][ \A p \in Procs :
          (proc[p].pc = "denied" /\ proc'[p] # proc[p]) =>
              /\ proc[p].result.returned
              /\ proc[p].result.scanned_pairs = 0
              /\ proc[p].result.emails = 0
              /\ proc'[p].printed ]_vars

\* C30 (amended): a process whose acquire() returned False runs no cycle and
\* exits with status 0 without any summary: run_once has returned nothing
\* and nothing is printed; no email was sent by it.
C30_DeniedExitsWithoutSummary ==
    [][ \A p \in Procs :
          (proc[p].pc = "denied" /\ proc'[p] # proc[p]) =>
              /\ ~proc[p].result.returned
              /\ proc[p].total_emails = 0
              /\ proc'[p].exit_code = ExitOk
              /\ ~proc'[p].printed
              /\ sent' = sent ]_vars

\* A process has exited with status 0 and nothing printed while the other
\* one is in its cycle with the lock.
C30_Witness ==
    \E p, q \in Procs :
        /\ proc[p].pc = "idle"
        /\ proc[p].exit_code = ExitOk
        /\ ~proc[p].printed
        /\ lockHolder = q
        /\ proc[q].pc = "fetch"

\* ------------------------------------------------------------------ C31
\* The largest member of a non-empty set of numbers.
MaxOf(S) == CHOOSE m \in S : \A n \in S : n <= m

\* C31: a step in which the checkpoint of a fetched group is written and
\* committed leaves, as the stored checkpoint of the group's key, the maximum
\* of the value stored before (0 when there was none) and the created times
\* of all the posts fetched, whether they matched, were sent, failed to send
\* or were skipped; no other checkpoint changes.
C31_CheckpointIsMaxFetched ==
    [][ \A p \in Procs :
          WriteCheckpoint(p) =>
            LET l == proc[p]
                key == Group(l).key
                old == IF key \in DOMAIN checkpoints THEN checkpoints[key] ELSE 0
            IN  /\ key \in DOMAIN checkpoints'
                /\ checkpoints'[key] =
                       MaxOf({old} \cup {Created(l.posts[i]) : i \in 1..Len(l.posts)})
                /\ \A k \in DOMAIN checkpoints' \ {key} :
                       k \in DOMAIN checkpoints /\ checkpoints'[k] = checkpoints[k] ]_vars

\* The checkpoint of (w, s) stands at the created time of post y although
\* no email about y was ever sent (every send failed), and post x, which
\* does not match, was fetched with it.
C31_Witness ==
    /\ <<  <<"w">>, <<"s">> >> \in DOMAIN checkpoints
    /\ checkpoints[<< <<"w">>, <<"s">> >>] = Created("y")
    /\ {"x", "y"} \subseteq feed
    /\ \A a \in AlertIds : CopiesIn(<<a, "y">>, sent) = 0

\* ------------------------------------------------------------------ C32
\* C32: in every step of a poller process the users and alerts tables stay
\* as they are; the deliveries table either stays as it is or gains exactly
\* the row of the pair being recorded, every earlier row kept; no checkpoint
\* row disappears, and a checkpoint row that appears or changes is the row of
\* the group a process is writing in its current cycle.
C32_PollerFrame ==
    [][ /\ users' = users
        /\ alerts' = alerts
        /\ \/ deliveries' = deliveries
           \/ \E p \in Procs :
                 /\ proc[p].pc = "record"
                 /\ deliveries' = deliveries (+) SetToBag({CurPair(proc[p])})
        /\ DOMAIN checkpoints \subseteq DOMAIN checkpoints'
        /\ \A k \in DOMAIN checkpoints' :
              (k \notin DOMAIN checkpoints \/ checkpoints'[k] # checkpoints[k]) =>
                 \E p \in Procs :
                    /\ proc[p].pc = "checkpoint"
                    /\ Group(proc[p]).key = k
                    /\ \E i \in 1..Len(proc[p].pairs) : proc[p].pairs[i].key = k ]_vars

\* A cycle has returned after recording deliveries and writing the
\* checkpoints of both groups.
C32_Witness ==
    /\ \E p \in Procs : proc[p].pc = "return" /\ proc[p].result.scanned_pairs = 2
    /\ BagCardinality(deliveries) >= 2
    /\ Cardinality(DOMAIN checkpoints) = 2
    /\ users = UserRows
    /\ alerts = AlertRows

\* ------------------------------------------------------------------ C33
\* C33: a subscription that is not active is in no group of any cycle, so
\* every fetch is made for a group of active subscriptions only, and no
\* email and no Delivery row ever carries its id, also when an active
\* subscription has the same (subreddit, keyword) pair.
C33_InactiveNeverPolled ==
    \A i \in 1..Len(alerts) :
        ~alerts[i].is_active =>
            /\ \A p \in Procs : \A g \in 1..Len(proc[p].pairs) :
                  \A j \in 1..Len(proc[p].pairs[g].alerts) :
                      /\ proc[p].pairs[g].alerts[j].id # alerts[i].id
                      /\ proc[p].pairs[g].alerts[j].is_active
            /\ \A id \in PostIds :
                  /\ CopiesIn(<<alerts[i].id, id>>, sent) = 0
                  /\ CopiesIn(<<alerts[i].id, id>>, deliveries) = 0

\* Post z has been sent and recorded for the active subscription a3 and the
\* cycle has returned, while a5, inactive on the same (m, k) pair, is in the
\* table.
C33_Witness ==
    /\ alerts = AlertRows
    /\ \E i \in 1..Len(alerts) :
          /\ ~alerts[i].is_active
          /\ PairKey(alerts[i]) = PairKey(alerts[3])
    /\ CopiesIn(<<"a3", "z">>, deliveries) = 1
    /\ \E p \in Procs : proc[p].pc = "return" /\ proc[p].result.scanned_pairs = 2

\* ------------------------------------------------------------------ C34
\* The distinct grouping keys of the active subscriptions.
ActiveKeys == {PairKey(a) : a \in Range(ActiveAlerts(alerts))}

\* C34: the groups of a cycle are one per distinct key of the active
\* subscriptions; the cycle asks for one fetch per group, in group order,
\* the fetch of a group made only when the group before it is finished, so
\* a cycle that returns without a cycle-fatal error has made as many fetches
\* as there are distinct keys; and no two processes fetch at the same time.
C34_FetchAggregation ==
    /\ \A p \in Procs :
          LET l == proc[p]
          IN  /\ l.pairs # <<>> =>
                    /\ Len(l.pairs) = Cardinality(ActiveKeys)
                    /\ {l.pairs[g].key : g \in 1..Len(l.pairs)} = ActiveKeys
              /\ l.pc \in {"group", "fetch"} => l.fetches = l.gi - 1
              /\ l.pc \in {"dedupe", "send", "record", "checkpoint"} => l.fetches = l.gi
              /\ (l.pc = "return" /\ ~l.result.error) => l.fetches = Cardinality(ActiveKeys)
    /\ Cardinality({p \in Procs : proc[p].pc = "fetch"}) <= 1

\* A cycle over four active subscriptions in two groups has returned after
\* two fetches.
C34_Witness ==
    /\ Len(ActiveAlerts(alerts)) = 4
    /\ \E p \in Procs :
          /\ proc[p].pc = "return"
          /\ ~proc[p].result.error
          /\ proc[p].fetches = 2
          /\ Len(proc[p].pairs) = 2

\* ------------------------------------------------------------------ C35
\* C35: in a cycle of a process that holds the lock, total_emails starts at
\* 0 and grows by one exactly in the steps that put an email in the mailbox;
\* a summary returned without the error field carries that count as emails
\* and, as scanned_pairs, the number of groups of the cycle, each of which
\* had its fetch asked for.  With no active subscription the cycle never
\* reaches the client construction, asks for no fetch, and returns
\* scanned_pairs 0 and emails 0 without the error field.
C35_SummaryCounts ==
    /\ [](\A p \in Procs :
            LET l == proc[p]
            IN  /\ l.pc = "load" => l.total_emails = 0
                /\ (l.pc = "return" /\ ~l.result.error) =>
                      /\ l.result.returned
                      /\ l.result.emails = l.total_emails
                      /\ l.result.scanned_pairs = Len(l.pairs)
                      /\ l.result.scanned_pairs = l.fetches
                /\ ActiveAlerts(alerts) = <<>> =>
                      /\ l.pc \in {"idle", "acquire", "denied", "load", "return"}
                      /\ l.fetches = 0
                      /\ l.pc = "return" =>
                            l.result = [returned |-> TRUE, scanned_pairs |-> 0,
                                        emails |-> 0, error |-> FALSE])
    /\ [][ \A p \in Procs :
            (proc[p].pc \in CyclePcs /\ proc'[p].pc \in CyclePcs \cup {"return"}) =>
                proc'[p].total_emails - proc[p].total_emails =
                    BagCardinality(sent') - BagCardinality(sent) ]_vars

\* A cycle over two groups has returned without the error field after the
\* fetch of one group failed; its emails are the emails in the mailbox.
C35_Witness ==
    \E p \in Procs :
        /\ proc[p].pc = "return"
        /\ ~proc[p].result.error
        /\ proc[p].failed # {}
        /\ proc[p].result.scanned_pairs = 2
        /\ proc[p].result.emails >= 1
        /\ proc[p].result.emails = BagCardinality(sent)

\* ------------------------------------------------------------------ C36
\* C36: a token that is used stays in the table, used, for ever.  A
\* reset_password call (a step in which no time passes) on a token that is
\* unknown, used or expired is answered 400 and leaves the users and tokens
\* tables as they were; one that is answered 200 was made on a stored,
\* unused token and leaves exactly that token marked used.
C36_TokenSingleUse ==
    [][ /\ \A t \in tokens : t.used => t \in tokens'
        /\ (resp'.op = "reset_password" /\ now' = now) =>
              LET found == {t \in tokens : t.token = resp'.token}
              IN  /\ (found = {} \/ \E t \in found : t.used \/ now > t.expires_at) =>
                        /\ resp'.status = 400
                        /\ users' = users
                        /\ tokens' = tokens
                  /\ resp'.status = 200 =>
                        \E t \in found :
                            /\ ~t.used
                            /\ tokens' = (tokens \ {t}) \cup {[t EXCEPT !.used = TRUE]} ]_vars

\* The only token ever issued has reset a password to Pw2, is used, has not
\* expired, and a further reset_password with it has been refused.
C36_Witness ==
    /\ uuids = 1
    /\ resp.op = "reset_password"
    /\ resp.status = 400
    /\ \E t \in tokens :
          /\ t.token = resp.token
          /\ t.used
          /\ now <= t.expires_at
          /\ users[UserIndex(users, t.user_id)].password_hash = "hash2"

\* ------------------------------------------------------------------ C37
\* The unused reset tokens of a user.
Unused(table, user_id) == {t \in table : t.user_id = user_id /\ ~t.used}

\* C37: in every state each user has at most one unused reset token, and a
\* request_password_reset call that issues a token leaves that token as the
\* only unused token of its user, every token the user had before marked
\* used.
C37_OneLiveTokenPerUser ==
    /\ [](\A e \in Emails : Cardinality(Unused(tokens, e)) <= 1)
    /\ [][ (resp'.op = "forgot_password" /\ resp'.token # NoToken /\ uuids' # uuids) =>
              /\ \A t \in tokens :
                    t.user_id = resp'.email => [t EXCEPT !.used = TRUE] \in tokens'
              /\ \A t \in Unused(tokens', resp'.email) : t.token = resp'.token
              /\ Cardinality(Unused(tokens', resp'.email)) = 1 ]_vars

\* A user has asked for a reset twice: the first token is marked used though
\* it has not expired, the second is unused, and reset_password with the
\* first has been refused.
C37_Witness ==
    \E t1, t2 \in tokens :
        /\ t1.user_id = t2.user_id
        /\ t1.token = 1 /\ t1.used /\ now <= t1.expires_at
        /\ t2.token = 2 /\ ~t2.used
        /\ resp.op = "reset_password"
        /\ resp.token = 1
        /\ resp.status = 400
        /\ users[UserIndex(users, t1.user_id)].password_hash = "hash1"

\* ------------------------------------------------------------------ C38
\* C38 (as stated): whatever max_retries is, a call of retry_on_error that
\* has ended has called func at least once and has ended by returning
\* func's result or by raising func's error.
C38_CallsAtLeastOnce ==
    retry.status \notin {"idle", "running"} =>
        /\ retry.calls >= 1
        /\ retry.status \in {"returned", "raised"}
        /\ retry.status = "raised" => retry.error \in Raises(retry.func)

\* ------------------------------------------------------------------ C39
\* C39 (as stated): no two active subscriptions of one owner in the alerts
\* table have the same grouping key in run_once, so that no group holds two
\* subscriptions of one owner.
C39_OwnerOncePerGroup ==
    \A i, j \in 1..Len(alerts) :
        ( /\ i # j
          /\ alerts[i].is_active
          /\ alerts[j].is_active
          /\ alerts[i].user_id = alerts[j].user_id ) =>
            PairKey(alerts[i]) # PairKey(alerts[j])

====
